---- MODULE Spec2Model ----
(***************************************************************************)
(* A model of rpm-s3-mirror: the mirror controller (mirror.py), the object *)
(* store adapter with its transfer pool (s3.py), the repository metadata   *)
(* engine (repository.py) and the helpers of util.py.                      *)
(*                                                                         *)
(* Paths, URLs paths and bucket keys are sequences of string tokens in     *)
(* which "/" is a token of its own, so that prefix listing, basename,      *)
(* join and the '+' replacement act on them as the Python string           *)
(* operations act on the strings.  File bodies are strings; sha256 is an   *)
(* injective function from bodies to digests.                              *)
(***************************************************************************)
EXTENDS Integers, Sequences, FiniteSets, TLC

\* ------------------------------------------------------------------------
\* Bounds of the model
\* ------------------------------------------------------------------------
MaxWorkers == 2
MaxFaults == 1
MaxTime == 3

\* ------------------------------------------------------------------------
\* Strings as token sequences
\* ------------------------------------------------------------------------
MaxOf(S) == CHOOSE x \in S : \A y \in S : y <= x

startswith(s, p) == Len(p) <= Len(s) /\ SubSeq(s, 1, Len(p)) = p

endswith(s, suf) ==
    Len(suf) <= Len(s) /\ SubSeq(s, Len(s) - Len(suf) + 1, Len(s)) = suf

\* posixpath.join for two components
join(a, b) ==
    IF startswith(b, <<"/">>) THEN b
    ELSE IF a = <<>> \/ a[Len(a)] = "/" THEN a \o b
    ELSE a \o <<"/">> \o b

basename(p) ==
    LET idx == {i \in 1..Len(p) : p[i] = "/"}
    IN  IF idx = {} THEN p ELSE SubSeq(p, MaxOf(idx) + 1, Len(p))

dirname(p) ==
    LET idx == {i \in 1..Len(p) : p[i] = "/"}
    IN  IF idx = {} THEN <<>> ELSE SubSeq(p, 1, MaxOf(idx) - 1)

\* str.replace("+", " ")
replace_plus(p) == [i \in 1..Len(p) |-> IF p[i] = "+" THEN " " ELSE p[i]]

\* S3._trim_key
trim_key(remote_path) ==
    IF startswith(remote_path, <<"/">>) THEN Tail(remote_path) ELSE remote_path

\* util.sha256: an injective digest
sha256(content) == "sha256(" \o content \o ")"

\* ------------------------------------------------------------------------
\* The configured repositories and what their upstreams serve
\* ------------------------------------------------------------------------
\* config.upstream_repositories, by the path of each base URL
Repositories == <<"r1", "r2">>
RepoIds == 1..Len(Repositories)

\* RPMRepository.__init__: base_url ends in "/", path = urlparse(base_url).path
RepoPath(i) == <<"/", (Repositories[i]), "/">>
UpstreamUrl(i) == [host |-> "upstream", path |-> RepoPath(i)]

\* Mirror._build_s3_url: same path on the bucket's host
build_s3_url(base_url) == [host |-> "s3", path |-> base_url.path]


PkgHref(n) ==
    CASE n = "a" -> <<"Packages", "/", "a", "/", "x.rpm">>
      [] n = "b" -> <<"Packages", "/", "b", "/", "g", "+", "+", ".rpm">>
      [] n = "g" -> <<"Packages", "/", "g", "+", "+", ".rpm">>
      [] n = "m" -> <<"Packages", "/", "m.rpm">>

RpmBody(n) == "rpm:" \o n

\* The <package> elements of primary.xml; "m" is a later release of
\* package "a": the same name, another release, file and checksum
PkgElement(n) ==
    [name |-> IF n = "m" THEN "a" ELSE n, ver |-> "1", epoch |-> "0",
     rel |-> IF n = "m" THEN "2" ELSE "1",
     checksum |-> IF n = "m" THEN "md5(" \o RpmBody(n) \o ")" ELSE sha256(RpmBody(n)),
     checksum_type |-> IF n = "m" THEN "md5" ELSE "sha256",
     href |-> PkgHref(n)]

\* Versions of a repository's metadata: "old" is what a populated mirror
\* holds, the others are what an upstream may serve.
Scenarios == {"old", "plus", "dup", "md5"}

\* What the upstream of repository i may serve: the first repository's
\* upstream any version, the others' a version without colliding names
UpstreamScenarios(i) == IF i = 1 THEN Scenarios ELSE {"old", "plus"}

\* What an upstream that does not change between two invocations serves:
\* a version and a Last-Modified header (0: no header)
UnchangedUpstreams ==
    [RepoIds -> [version : {"old", "plus"}, header : 0..MaxTime]]

\* Every version of a repository's metadata: a mirror may also hold
\* "sqlite", which lists a database section besides the XML ones
Versions == Scenarios \cup {"sqlite", "empty"}

ScenarioPkgs(s) ==
    CASE s = "old"  -> <<"a">>
      [] s = "sqlite" -> <<"a">>
      [] s = "plus" -> <<"a", "g">>
      [] s = "dup"  -> <<"a", "b", "g">>
      [] s = "md5"  -> <<"a", "m">>
      [] s = "empty" -> <<>>

RepomdBody(s) == "repomd:" \o s
PrimaryBody(s) == "primary:" \o s
FilelistsBody(s) == "filelists:" \o s
PrimaryDbBody(s) == "primary_db:" \o s

\* The <data> elements of a repomd.xml, in document order
RepomdData(s) ==
    << [type |-> "primary",
        href |-> <<"repodata", "/", sha256(PrimaryBody(s)), "-", "primary", ".xml.gz">>,
        checksum |-> sha256(PrimaryBody(s)), checksum_type |-> "sha256",
        size |-> Len(PrimaryBody(s)), body |-> PrimaryBody(s)],
       [type |-> "filelists",
        href |-> <<"repodata", "/", sha256(FilelistsBody(s)), "-", "filelists", ".xml.gz">>,
        checksum |-> sha256(FilelistsBody(s)), checksum_type |-> "sha256",
        size |-> Len(FilelistsBody(s)), body |-> FilelistsBody(s)] >>
    \o (IF s = "sqlite"
        THEN << [type |-> "primary_db",
                 href |-> <<"repodata", "/", sha256(PrimaryDbBody(s)), "-", "primary", ".sqlite.bz2">>,
                 checksum |-> sha256(PrimaryDbBody(s)), checksum_type |-> "sha256",
                 size |-> Len(PrimaryDbBody(s)), body |-> PrimaryDbBody(s)] >>
        ELSE << >>)

REPOMD_XML == <<"repodata", "/", "repomd.xml">>

\* The files of one version of a repository rooted at `root`: path -> body
RepoFiles(root, s) ==
    {[path |-> root \o REPOMD_XML, body |-> RepomdBody(s)]}
    \cup {[path |-> root \o RepomdData(s)[k].href, body |-> RepomdData(s)[k].body]
            : k \in 1..Len(RepomdData(s))}
    \cup {[path |-> root \o PkgHref(ScenarioPkgs(s)[k]), body |-> RpmBody(ScenarioPkgs(s)[k])]
            : k \in 1..Len(ScenarioPkgs(s))}

\* ------------------------------------------------------------------------
\* Repository metadata (repository.py)
\* ------------------------------------------------------------------------
\* The section described by the digest and the size of the file as it was
\* before the rewriting
rewrite_primary_OpenDigest(primary_xml) ==
    LET compressed_xml == "rewritten(" \o primary_xml \o ")"
        open_checksum == sha256(primary_xml)
        local_path == <<open_checksum, "-", "primary", ".xml.gz">>
    IN  [open_checksum |-> open_checksum, checksum |-> open_checksum, checksum_type |-> "sha256",
         size |-> Len(primary_xml), open_size |-> Len(primary_xml),
         local_path |-> local_path,
         location |-> <<"repodata", "/">> \o basename(local_path),
         body |-> compressed_xml]

\* RPMRepository._rewrite_primary: the section is rewritten (every href
\* gets "../../" in front), compressed and digested; the file is named
\* after the new digest
rewrite_primary(primary_xml) ==
    LET compressed_xml == "rewritten(" \o primary_xml \o ")"
        compressed_sha256 == sha256(compressed_xml)
        local_path == <<compressed_sha256, "-", "primary", ".xml.gz">>
    IN  [open_checksum |-> sha256(primary_xml), checksum |-> compressed_sha256, checksum_type |-> "sha256",
         size |-> Len(compressed_xml), open_size |-> Len(primary_xml),
         local_path |-> local_path,
         location |-> <<"repodata", "/">> \o basename(local_path),
         body |-> compressed_xml]

\* RPMRepository._rewrite_repomd: checksum, size and location of one <data>
\* element
rewrite_repomd(repomd_xml, snapshot, section_name) ==
    [k \in DOMAIN repomd_xml |->
        IF repomd_xml[k].type = section_name
        THEN [repomd_xml[k] EXCEPT !.checksum = snapshot.checksum,
                                   !.size = snapshot.size,
                                   !.href = snapshot.location,
                                   !.body = snapshot.body]
        ELSE repomd_xml[k]]

\* The repomd.xml a snapshot of version s holds
SnapshotRepomdBody(s) == "snapshot-" \o RepomdBody(s)


\* safe_parse_xml on a repomd.xml: its <data> elements
safe_parse_xml(body) ==
    IF \E s \in Versions : body = RepomdBody(s)
    THEN RepomdData(CHOOSE s \in Versions : body = RepomdBody(s))
    ELSE LET s == CHOOSE s \in Versions : body = SnapshotRepomdBody(s)
         IN  rewrite_repomd(RepomdData(s), rewrite_primary(PrimaryBody(s)), "primary")

\* lxml tostring: the document that parses to these elements
tostring(repomd_xml) == CHOOSE body \in ({RepomdBody(s) : s \in Versions} \cup {SnapshotRepomdBody(s) : s \in Versions}) : safe_parse_xml(body) = repomd_xml

\* The sections with the location alone as destination
parse_repomd_LocationOnly(base_url, body) ==
    LET d == safe_parse_xml(body)
    IN  [k \in 1..Len(d) |->
            [type |-> d[k].type,
             url |-> [host |-> base_url.host, path |-> join(base_url.path, d[k].href)],
             location |-> d[k].href,
             destination |-> d[k].href,
             checksum_type |-> d[k].checksum_type,
             checksum |-> d[k].checksum]]

\* RPMRepository.parse_repomd: one RepodataSection per <data> element, in
\* document order (the dictionary keeps insertion order)
parse_repomd(base_url, body) ==
    LET d == safe_parse_xml(body)
    IN  [k \in 1..Len(d) |->
            [type |-> d[k].type,
             url |-> [host |-> base_url.host, path |-> join(base_url.path, d[k].href)],
             location |-> d[k].href,
             destination |-> base_url.path \o d[k].href,
             checksum_type |-> d[k].checksum_type,
             checksum |-> d[k].checksum]]

\* Package.__init__
Package(base_url, destination_path, e) ==
    [base_url |-> base_url,
     name |-> e.name, checksum |-> e.checksum, checksum_type |-> e.checksum_type,
     location |-> e.href,
     destination |-> (IF endswith(destination_path, <<"/">>) THEN destination_path
                      ELSE destination_path \o <<"/">>) \o e.href,
     version |-> e.ver, epoch |-> e.epoch, release |-> e.rel,
     url |-> [host |-> base_url.host, path |-> base_url.path \o e.href]]

\* Package._key
PackageKey_NameOnly(p) == <<p.name>>
PackageKey(p) == <<p.name, p.version, p.epoch, p.release, p.checksum>>

\* PackageList.__iter__ over the <package> children of a primary document
PackageList(base_url, body) ==
    LET rewritten == \A s \in Versions : body # PrimaryBody(s)
        names == ScenarioPkgs(CHOOSE s \in Versions : body \in {PrimaryBody(s), rewrite_primary(PrimaryBody(s)).body})
    IN  [k \in 1..Len(names) |->
            Package(base_url, base_url.path,
                    IF rewritten
                    THEN [PkgElement(names[k]) EXCEPT !.href = <<"..", "/", "..", "/">> \o @]
                    ELSE PkgElement(names[k]))]

Range(f) == {f[x] : x \in DOMAIN f}

\* set(upstream).difference(set(mirror)) under Package.__eq__ / __hash__
PackageDifference(up, mir) ==
    {p \in Range(up) : \A q \in Range(mir) : PackageKey(p) # PackageKey(q)}

\* The orders in which a set may be iterated
Orderings(S) ==
    {q \in [1..Cardinality(S) -> S] : \A i, j \in 1..Cardinality(S) : i # j => q[i] # q[j]}

\* What the transfer pool needs of a Package or a RepodataSection
RepoObject(o) ==
    [url |-> o.url, destination |-> o.destination,
     checksum_type |-> o.checksum_type, checksum |-> o.checksum]

\* ------------------------------------------------------------------------
\* The bucket (s3.py)
\* ------------------------------------------------------------------------
DEFAULT_CACHE_AGE == 31536000


S3Object(body, cache_age, t) ==
    [body |-> body, cache |-> cache_age, last_modified |-> t, manifest |-> ([previous_repomd |-> <<>>, synced_packages |-> {}])]

\* The mirror of version s of repository i as a bucket fragment: a key
\* with '+' has its duplicate with spaces
MirrorObjects(i, s, t) ==
    LET files == RepoFiles(RepoPath(i), s)
        keys == {trim_key(f.path) : f \in files} \cup {trim_key(replace_plus(f.path)) : f \in files}
    IN  [k \in keys |->
            S3Object((CHOOSE f \in files : k \in {trim_key(f.path), trim_key(replace_plus(f.path))}).body,
                     DEFAULT_CACHE_AGE, t)]

EmptyBucket == [k \in {} |-> S3Object("", 0, 0)]

object_exists(b, key) == trim_key(key) \in DOMAIN b

\* list_objects_v2(Prefix=prefix): the prefix is used as given
ListKeys(b, prefix) == {k \in DOMAIN b : startswith(k, prefix)}

LiveRepomdKey(i) == trim_key(RepoPath(i) \o REPOMD_XML)

\* ------------------------------------------------------------------------
\* State
\* ------------------------------------------------------------------------
VARIABLES
    bootstrap,        \* the argument of Mirror.sync
    bucket,           \* the bucket: key -> object
    bucket0,          \* the bucket when the operation was invoked
    ops,              \* the PUT, COPY and DELETE requests issued so far (PUT_REJECTED: refused by the store)
    reads,            \* the HEAD and LIST requests issued to the store so far
    clock,            \* wall clock
    faults,           \* environment failures that have happened so far
    upstream,         \* what the current repository's upstream serves
    repoIdx,          \* Mirror.sync: position in self.repositories
    pc,               \* Mirror._sync_repository: the statement about to run
    last_check_time,  \* Mirror._sync_repository: last_check_time
    new_packages,     \* Mirror._sync_repository: new_packages, as iterated
    manifest_location,\* Mirror._sync_repository: manifest_location
    pool,             \* S3._sync_objects: the tasks handed to executor.map
    raising,          \* S3._sync_objects: a task's exception reached the caller
    staged,           \* the files of sync_packages' temp_dir: name -> body
    dispatched,       \* destinations handed to the pool in this repository's sync
    completed,        \* destinations whose task returned normally
    stat,             \* per repository: how its _sync_repository call ended
    sync_success,     \* Mirror.sync: sync_success
    returned,         \* "running", or how the operation returned
    snapshot_id,      \* Mirror.snapshot: snapshot_id
    snapshot,         \* Mirror._snapshot_repository: snapshot (RepoDataFiles)
    cursor,           \* position of the file loop, or of the removal loop
    s3_client,        \* S3._s3: the client, or NoClient
    lock,             \* s3.lock: the thread that holds it, or NoThread
    clients,          \* how many clients have been constructed
    threads,          \* per worker thread: where it is in S3._client
    invocation,       \* how many times Mirror.sync has been invoked
    served,           \* what the upstreams serve while they do not change
    local_path,       \* Mirror.sync_snapshot: local_path
    snapshots,        \* Mirror.list_snapshots: snapshots
    diff,             \* Mirror.diff_snapshots: diff
    old_snapshot,     \* Mirror.diff_snapshots: old_snapshot
    new_snapshot,     \* Mirror.diff_snapshots: new_snapshot
    repository,       \* RPMRepository(base_url): the object made, or the error raised
    traversed,        \* a PackageList: its len() and two traversals of it
    download,         \* download_file: the requests it sent and how it ended
    class_config,     \* Config._config: the class attribute every Config shares
    config            \* the Config objects constructed, in order

vars == <<bootstrap, bucket, bucket0, ops, reads, clock, faults, upstream, repoIdx, pc,
          last_check_time, new_packages, manifest_location, pool, raising, staged,
          dispatched, completed, stat, sync_success, returned,
          snapshot_id, snapshot, cursor, s3_client, lock, clients, threads,
          invocation, served, local_path, snapshots, diff, old_snapshot, new_snapshot,
          repository, traversed, download, class_config, config>>

ctlVars == <<last_check_time, new_packages, manifest_location>>
poolVars == <<pool, raising, staged, dispatched, completed>>
loopVars == <<repoIdx, stat, sync_success, returned>>
snapVars == <<snapshot_id, snapshot, cursor>>
clientVars == <<s3_client, lock, clients, threads>>
\* How many Config objects one process constructs
MaxConfigs == 2

\* config.py: the options that have a default, and their defaults
DEFAULTS == [scratch_dir |-> "/var/tmp/", max_workers |-> 4]

runVars == <<invocation, served, repository, traversed, download, class_config, config>>
queryVars == <<local_path, snapshots, diff, old_snapshot, new_snapshot>>
syncVars == <<bootstrap, upstream, ctlVars, poolVars, sync_success>>

NoSnapshot == [sync_files |-> <<>>, upload_files |-> <<>>]

\* self._s3 = None; the lock held by nobody
NoClient == 0
NoThread == 0
Threads == 1..MaxWorkers
NoCall == [pc |-> "idle", calls |-> 0, got |-> NoClient]

\* The client as it is while sync and snapshot are modelled: constructed
ClientAtRest ==
    /\ s3_client = 1
    /\ lock = NoThread
    /\ clients = 1
    /\ threads = [t \in Threads |-> NoCall]

QueriesAtRest ==
    /\ local_path = <<>>
    /\ snapshots = <<>>
    /\ diff = <<>>
    /\ old_snapshot = <<>>
    /\ new_snapshot = <<>>

NoUpstream == "none"
NotSeen == 0 - 1
NotRun == [outcome |-> "none", failed_at |-> "none", header |-> NotSeen, since |-> NotSeen]

\* Times: the mirror was last written at MirrorTime; an upstream's
\* Last-Modified is one of UpstreamTimes (0: the header is absent); the
\* run starts at StartTime.
MirrorTime == MaxTime - 1
StartTime == MaxTime + 2

\* session.get(url): the upstream serves the files of its version, the
\* bucket's host serves the bucket's objects
HttpGet(url) ==
    IF url.host = "upstream"
    THEN LET files == RepoFiles(RepoPath(repoIdx), upstream)
         IN  IF \E f \in files : f.path = url.path
             THEN [status |-> 200, body |-> (CHOOSE f \in files : f.path = url.path).body]
             ELSE [status |-> 404, body |-> ""]
    ELSE IF trim_key(url.path) \in DOMAIN bucket
         THEN [status |-> 200, body |-> bucket[trim_key(url.path)].body]
         ELSE [status |-> 403, body |-> ""]

UrlOf(base_url, path) == [host |-> base_url.host, path |-> base_url.path \o path]

\* RPMRepository.parse_metadata succeeds: repomd.xml is served and parses,
\* the primary section is served and passes validate_checksum
CanParseMetadata(base_url) ==
    LET r == HttpGet(UrlOf(base_url, REPOMD_XML))
    IN  /\ r.status = 200
        /\ (r.body \in ({RepomdBody(s) : s \in Versions} \cup {SnapshotRepomdBody(s) : s \in Versions}))
        /\ LET primary == CHOOSE x \in Range(parse_repomd(base_url, r.body)) : x.type = "primary"
               g == HttpGet(UrlOf(base_url, primary.location))
           IN  /\ g.status = 200
               /\ primary.checksum_type = "sha256"
               /\ sha256(g.body) = primary.checksum
               /\ (\E s \in Versions : g.body \in {PrimaryBody(s), rewrite_primary(PrimaryBody(s)).body})

\* RPMRepository.parse_metadata: Metadata(package_list, repodata, base_url)
parse_metadata(base_url) ==
    LET repodata == parse_repomd(base_url, HttpGet(UrlOf(base_url, REPOMD_XML)).body)
        primary == CHOOSE x \in Range(repodata) : x.type = "primary"
    IN  [package_list |-> PackageList(base_url, HttpGet(UrlOf(base_url, primary.location)).body),
         repodata |-> repodata,
         base_url |-> base_url]

\* has_updates with the comparison "not older" instead of "strictly newer"
has_updates_NotOlder(last_modified_header, since) ==
    IF last_modified_header = 0 THEN TRUE ELSE last_modified_header >= since

\* RPMRepository.has_updates; a header of 0 stands for no Last-Modified
has_updates(last_modified_header, since) ==
    IF last_modified_header = 0 THEN TRUE ELSE last_modified_header > since

\* ------------------------------------------------------------------------
\* Mirror.sync and Mirror._sync_repository (mirror.py)
\* ------------------------------------------------------------------------


\* The state in which Mirror.sync is invoked
InitMirror ==
    /\ bootstrap \in BOOLEAN
    /\ \E m \in [RepoIds -> {"none", "old"}] :
          bucket = [k \in UNION {IF m[i] = "none" THEN {} ELSE DOMAIN MirrorObjects(i, m[i], MirrorTime) : i \in RepoIds} |->
                  LET i == CHOOSE i \in RepoIds : m[i] # "none" /\ k \in DOMAIN MirrorObjects(i, m[i], MirrorTime)
                  IN  MirrorObjects(i, m[i], MirrorTime)[k]]
    /\ bucket0 = bucket
    /\ ops = {}
    /\ reads = {}
    /\ clock = StartTime
    /\ faults = 0
    /\ upstream = NoUpstream
    /\ repoIdx = 1
    /\ pc = "loop"
    /\ last_check_time = 0
    /\ new_packages = <<>>
    /\ manifest_location = <<>>
    /\ pool = <<>>
    /\ raising = FALSE
    /\ staged = <<>>
    /\ dispatched = {}
    /\ completed = {}
    /\ stat = [i \in RepoIds |-> NotRun]
    /\ sync_success = TRUE
    /\ returned = "running"
    /\ snapshot_id = <<>>
    /\ snapshot = NoSnapshot
    /\ cursor = 0
    /\ ClientAtRest
    /\ QueriesAtRest

InitSync ==
    /\ InitMirror
    /\ (invocation = 1 /\ served = <<>>)
    /\ (repository = <<>> /\ traversed = <<>> /\ download = <<>> /\ class_config = DEFAULTS /\ config = <<>>)

\* The except clause of Mirror.sync leaving the loop instead of continuing
SyncFailed_Break(at) ==
    /\ stat' = [stat EXCEPT ![repoIdx].outcome = "failed", ![repoIdx].failed_at = at]
    /\ sync_success' = FALSE
    /\ repoIdx' = Len(Repositories) + 1
    /\ pc' = "loop"
    /\ upstream' = NoUpstream
    /\ UNCHANGED returned

\* An exception leaves _sync_repository: the except clause of Mirror.sync
\* records the failure and continues with the next repository
SyncFailed(at) ==
    /\ stat' = [stat EXCEPT ![repoIdx].outcome = "failed", ![repoIdx].failed_at = at]
    /\ sync_success' = FALSE
    /\ repoIdx' = repoIdx + 1
    /\ pc' = "loop"
    /\ upstream' = NoUpstream
    /\ UNCHANGED returned

\* _sync_repository returns normally
SyncReturned(how) ==
    /\ stat' = [stat EXCEPT ![repoIdx].outcome = how]
    /\ repoIdx' = repoIdx + 1
    /\ pc' = "loop"
    /\ upstream' = NoUpstream
    /\ UNCHANGED <<sync_success, returned>>

\* for upstream_repository in self.repositories: ... _sync_repository(...)
StartRepository ==
    /\ pc = "loop" /\ repoIdx <= Len(Repositories)
    /\ upstream' \in (IF served = <<>> THEN UpstreamScenarios(repoIdx)
                      ELSE {served[repoIdx].version})
    /\ pc' = "parse_metadata"
    /\ clock' = clock + 1
    /\ last_check_time' = 0
    /\ new_packages' = <<>>
    /\ manifest_location' = <<>>
    /\ pool' = <<>> /\ raising' = FALSE /\ staged' = <<>>
    /\ dispatched' = {} /\ completed' = {}
    /\ UNCHANGED <<snapVars, clientVars, runVars, queryVars, reads, bootstrap, bucket, bucket0, ops, faults, loopVars>>

\* upstream_metadata = upstream_repository.parse_metadata()
ParseUpstream ==
    /\ pc = "parse_metadata"
    /\ \/ /\ CanParseMetadata(UpstreamUrl(repoIdx))
          /\ IF bootstrap
             THEN /\ new_packages' = parse_metadata(UpstreamUrl(repoIdx)).package_list
                  /\ pc' = "sync_packages"
             ELSE /\ pc' = "repomd_update_time"
                  /\ UNCHANGED new_packages
          /\ UNCHANGED <<faults, upstream, loopVars>>
       \/ /\ faults < MaxFaults
          /\ faults' = faults + 1
          /\ SyncFailed("parse_metadata")
          /\ UNCHANGED new_packages
    /\ UNCHANGED <<snapVars, clientVars, runVars, queryVars, reads, bootstrap, bucket, bucket0, ops, clock, last_check_time,
                   manifest_location, poolVars>>

\* S3._head_object, S3.list: requests that change nothing; `task` is the
\* position in the pool of the task that issued it, 0 for the controller
HeadRequest(key, task) == [op |-> "HEAD", key |-> key, repo |-> repoIdx, task |-> task]

\* last_check_time = self.s3.repomd_update_time(base_url=mirror_repository.base_url)
RepomdUpdateTime ==
    /\ pc = "repomd_update_time"
    /\ reads' = reads \cup {HeadRequest(LiveRepomdKey(repoIdx), 0)}
    /\ IF LiveRepomdKey(repoIdx) \in DOMAIN bucket
       THEN /\ last_check_time' = bucket[LiveRepomdKey(repoIdx)].last_modified
            /\ pc' = "has_updates"
            /\ UNCHANGED <<upstream, loopVars>>
       ELSE /\ SyncFailed("repomd_update_time")
            /\ UNCHANGED last_check_time
    /\ UNCHANGED <<snapVars, clientVars, runVars, queryVars, bootstrap, bucket, bucket0, ops, clock, faults, new_packages,
                   manifest_location, poolVars>>

\* if not upstream_repository.has_updates(since=last_check_time): return
HasUpdates ==
    /\ pc = "has_updates"
    /\ \/ \E header \in (IF served = <<>> THEN 0..MaxTime ELSE {served[repoIdx].header}) :
            /\ IF has_updates(header, last_check_time)
               THEN /\ pc' = "mirror_parse_metadata"
                    /\ stat' = [stat EXCEPT ![repoIdx].header = header,
                                            ![repoIdx].since = last_check_time]
                    /\ UNCHANGED <<upstream, repoIdx, sync_success, returned>>
               ELSE /\ stat' = [stat EXCEPT ![repoIdx].outcome = "skipped",
                                            ![repoIdx].header = header,
                                            ![repoIdx].since = last_check_time]
                    /\ repoIdx' = repoIdx + 1
                    /\ pc' = "loop"
                    /\ upstream' = NoUpstream
                    /\ UNCHANGED <<sync_success, returned>>
            /\ UNCHANGED faults
       \/ /\ faults < MaxFaults
          /\ faults' = faults + 1
          /\ SyncFailed("has_updates")
    /\ UNCHANGED <<snapVars, clientVars, runVars, queryVars, reads, bootstrap, bucket, bucket0, ops, clock, ctlVars, poolVars>>

\* mirror_metadata = mirror_repository.parse_metadata()
\* new_packages = set(upstream...package_list).difference(set(mirror...package_list))
ParseMirror ==
    /\ pc = "mirror_parse_metadata"
    /\ LET mirror_url == build_s3_url(UpstreamUrl(repoIdx))
       IN  \/ /\ CanParseMetadata(mirror_url)
              /\ \E order \in Orderings(PackageDifference(
                                  parse_metadata(UpstreamUrl(repoIdx)).package_list,
                                  parse_metadata(mirror_url).package_list)) :
                    new_packages' = order
              /\ pc' = "sync_packages"
              /\ UNCHANGED <<faults, upstream, loopVars>>
           \/ /\ \/ ~CanParseMetadata(mirror_url) /\ UNCHANGED faults
                 \/ faults < MaxFaults /\ faults' = faults + 1
              /\ SyncFailed("mirror_parse_metadata")
              /\ UNCHANGED new_packages
    /\ UNCHANGED <<snapVars, clientVars, runVars, queryVars, reads, bootstrap, bucket, bucket0, ops, clock, last_check_time,
                   manifest_location, poolVars>>

\* ------------------------------------------------------------------------
\* The transfer pool: S3.sync_packages, S3._sync_objects, S3._sync_object
\* ------------------------------------------------------------------------
Task(o) == [obj |-> RepoObject(o), st |-> "queued", seen |-> "", skipped |-> FALSE]

Running == {i \in DOMAIN pool : pool[i].st \in {"download", "validate", "put", "put_workaround", "unlink"}}

HasPlus(p) == \E i \in 1..Len(p) : p[i] = "+"

\* join(temp_dir, os.path.basename(url)) in util._download_file
StagedName(o) == basename(o.url.path)

\* S3._build_md5_header: the base64 MD5 digest of what the file holds
build_md5_header(content) == "base64(md5(" \o content \o "))"

\* The request of S3.put_object: ContentMD5 is computed from the file
\* before the file is sent from its start as the body
PutRequest(key, body, cache_age) ==
    [op |-> "PUT", key |-> key, src |-> <<>>, body |-> body, cache |-> cache_age,
     repo |-> repoIdx, acl |-> "public-read", md5 |-> build_md5_header(body)]

CopyRequest(src, dst) ==
    [op |-> "COPY", key |-> dst, src |-> src, body |-> "", cache |-> 0, repo |-> repoIdx,
     acl |-> "public-read", md5 |-> ""]

\* S3.put_object: the key is trimmed, the body is the local file's content
put_object(body, key, cache_age) ==
    /\ bucket' = (trim_key(key) :> S3Object(body, cache_age, clock)) @@ bucket
    /\ ops' = ops \cup {PutRequest(trim_key(key), body, cache_age)}

\* sync_packages called without skip_existing
skip_existing_Default == FALSE

\* skip_existing=bootstrap at the call of sync_packages
skip_existing == bootstrap

\* The test looking at the exact key only
SkipExisting_ExactOnly(o) == object_exists(bucket, o.destination)

\* The test of S3._sync_object, lines 119-124, that makes a task return at once
SkipExisting(o) ==
    /\ HasPlus(o.destination) /\ object_exists(bucket, replace_plus(o.destination))
    /\ object_exists(bucket, o.destination)

\* The HEAD requests that test issues: `and` evaluates its right operand
\* only when the left one is true
ExistenceChecks(o, task) ==
    IF ~HasPlus(o.destination) THEN {}
    ELSE {HeadRequest(trim_key(replace_plus(o.destination)), task)}
         \cup (IF object_exists(bucket, replace_plus(o.destination))
               THEN {HeadRequest(trim_key(o.destination), task)}
               ELSE {})

\* with TemporaryDirectory(...) as temp_dir: self._sync_objects(temp_dir, upstream_packages, ...)
SyncPackages ==
    /\ pc = "sync_packages"
    /\ pool' = [k \in DOMAIN new_packages |-> Task(new_packages[k])]
    /\ dispatched' = {new_packages[k].destination : k \in DOMAIN new_packages}
    /\ completed' = {}
    /\ staged' = <<>>
    /\ raising' = FALSE
    /\ pc' = "pool_packages"
    /\ UNCHANGED <<snapVars, clientVars, runVars, queryVars, reads, bootstrap, bucket, bucket0, ops, clock, faults, upstream, ctlVars, loopVars>>

SetTask(i, st) == pool' = [pool EXCEPT ![i].st = st]

\* A worker thread takes the next queued task (the work queue is FIFO) and
\* runs _sync_object up to the download
StartTask(i) ==
    /\ pc \in {"pool_packages", "pool_repodata"}
    /\ pool[i].st = "queued"
    /\ \A j \in 1..(i - 1) : pool[j].st # "queued"
    /\ Cardinality(Running) < MaxWorkers
    /\ IF skip_existing
       THEN \/ /\ reads' = reads \cup ExistenceChecks(pool[i].obj, i)
               /\ IF SkipExisting(pool[i].obj)
                  THEN pool' = [pool EXCEPT ![i].st = "done", ![i].skipped = TRUE]
                  ELSE SetTask(i, "download")
               /\ UNCHANGED faults
            \/ /\ HasPlus(pool[i].obj.destination)
               /\ faults < MaxFaults /\ faults' = faults + 1
               /\ reads' = reads \cup {HeadRequest(trim_key(replace_plus(pool[i].obj.destination)), i)}
               /\ SetTask(i, "failed")
       ELSE /\ SetTask(i, "download")
            /\ UNCHANGED <<reads, faults>>
    /\ UNCHANGED <<snapVars, clientVars, runVars, queryVars, bootstrap, bucket, bucket0, ops, clock, upstream, pc, ctlVars,
                   raising, staged, dispatched, completed, loopVars>>

\* package_path = download_file(temp_dir=temp_dir, url=repo_object.url, ...)
Download(i) ==
    /\ pc \in {"pool_packages", "pool_repodata"}
    /\ pool[i].st = "download"
    /\ LET r == HttpGet(pool[i].obj.url)
       IN  \/ /\ r.status = 200
              /\ staged' = (StagedName(pool[i].obj) :> r.body) @@ staged
              /\ SetTask(i, "validate")
              /\ UNCHANGED faults
           \/ /\ r.status # 200
              /\ SetTask(i, "failed")
              /\ UNCHANGED <<staged, faults>>
           \/ /\ faults < MaxFaults
              /\ faults' = faults + 1
              /\ \/ /\ staged' = (StagedName(pool[i].obj) :> "corrupt") @@ staged
                    /\ SetTask(i, "validate")
                 \/ /\ SetTask(i, "failed")
                    /\ UNCHANGED staged
    /\ UNCHANGED <<snapVars, clientVars, runVars, queryVars, reads, bootstrap, bucket, bucket0, ops, clock, upstream, pc, ctlVars,
                   raising, dispatched, completed, loopVars>>

\* validate_checksum without the comparison of the digests
ChecksumValid_TypeOnly(o, body) == o.checksum_type = "sha256"

\* util.validate_checksum on the staged file
ChecksumValid(o, body) == o.checksum_type = "sha256" /\ o.checksum = sha256(body)

\* validate_checksum(package_path, checksum_type=..., checksum=...)
Validate(i) ==
    /\ pc \in {"pool_packages", "pool_repodata"}
    /\ pool[i].st = "validate"
    /\ LET name == StagedName(pool[i].obj)
       IN  IF name \in DOMAIN staged /\ ChecksumValid(pool[i].obj, staged[name])
           THEN pool' = [pool EXCEPT ![i].st = "put", ![i].seen = staged[name]]
           ELSE SetTask(i, "failed")
    /\ UNCHANGED <<snapVars, clientVars, runVars, queryVars, reads, bootstrap, bucket, bucket0, ops, clock, faults, upstream, pc, ctlVars,
                   raising, staged, dispatched, completed, loopVars>>

\* self.put_object(package_path, repo_object.destination). Between
\* _build_md5_header and the sending of the body another task that stages
\* at the same path may be writing its download into the file: the body is
\* then what that task wrote, the store answers BadDigest and keeps nothing
Put(i) ==
    /\ pc \in {"pool_packages", "pool_repodata"}
    /\ pool[i].st = "put"
    /\ LET name == StagedName(pool[i].obj)
       IN  \/ /\ name \in DOMAIN staged
              /\ put_object(staged[name], pool[i].obj.destination, DEFAULT_CACHE_AGE)
              /\ SetTask(i, IF HasPlus(pool[i].obj.destination) THEN "put_workaround" ELSE "unlink")
              /\ UNCHANGED faults
           \/ /\ name \in DOMAIN staged
              /\ \E j \in DOMAIN pool \ {i} :
                    /\ pool[j].st = "download" /\ StagedName(pool[j].obj) = name
                    /\ HttpGet(pool[j].obj.url).status = 200
                    /\ HttpGet(pool[j].obj.url).body # staged[name]
                    /\ ops' = ops \cup {[PutRequest(trim_key(pool[i].obj.destination),
                                                    HttpGet(pool[j].obj.url).body, DEFAULT_CACHE_AGE)
                                           EXCEPT !.op = "PUT_REJECTED", !.md5 = build_md5_header(staged[name])]}
              /\ SetTask(i, "failed")
              /\ UNCHANGED <<bucket, faults>>
           \/ /\ \/ name \notin DOMAIN staged /\ UNCHANGED faults
                 \/ faults < MaxFaults /\ faults' = faults + 1
              /\ SetTask(i, "failed")
              /\ UNCHANGED <<bucket, ops>>
    /\ UNCHANGED <<snapVars, clientVars, runVars, queryVars, reads, bootstrap, bucket0, clock, upstream, pc, ctlVars,
                   raising, staged, dispatched, completed, loopVars>>

\* self.put_object(package_path, key=workaround_destination)
PutWorkaround(i) ==
    /\ pc \in {"pool_packages", "pool_repodata"}
    /\ pool[i].st = "put_workaround"
    /\ LET name == StagedName(pool[i].obj)
       IN  IF name \in DOMAIN staged
           THEN /\ put_object(staged[name], replace_plus(pool[i].obj.destination), DEFAULT_CACHE_AGE)
                /\ SetTask(i, "unlink")
           ELSE /\ SetTask(i, "failed")
                /\ UNCHANGED <<bucket, ops>>
    /\ UNCHANGED <<snapVars, clientVars, runVars, queryVars, reads, bootstrap, bucket0, clock, faults, upstream, pc, ctlVars,
                   raising, staged, dispatched, completed, loopVars>>

\* os.unlink(package_path); a failure is only logged
Unlink(i) ==
    /\ pc \in {"pool_packages", "pool_repodata"}
    /\ pool[i].st = "unlink"
    /\ staged' = [n \in DOMAIN staged \ {StagedName(pool[i].obj)} |-> staged[n]]
    /\ SetTask(i, "done")
    /\ UNCHANGED <<snapVars, clientVars, runVars, queryVars, reads, bootstrap, bucket, bucket0, ops, clock, faults, upstream, pc, ctlVars,
                   raising, dispatched, completed, loopVars>>


PoolObserveFailure ==
    /\ pc \in {"pool_packages", "pool_repodata"}
    /\ ~raising
    /\ (\E i \in DOMAIN pool : pool[i].st = "failed" /\ \A j \in 1..(i - 1) : pool[j].st = "done")
    /\ raising' = TRUE
    /\ pool' = [i \in DOMAIN pool |->
                  IF pool[i].st = "queued" THEN [pool[i] EXCEPT !.st = "cancelled"] ELSE pool[i]]
    /\ UNCHANGED <<snapVars, clientVars, runVars, queryVars, reads, bootstrap, bucket, bucket0, ops, clock, faults, upstream, pc, ctlVars,
                   staged, dispatched, completed, loopVars>>


\* The exception leaves _sync_objects, sync_packages and _sync_repository
PoolRaise ==
    /\ pc \in {"pool_packages", "pool_repodata"}
    /\ raising
    /\ (Running = {})
    /\ SyncFailed(pc)
    /\ UNCHANGED <<snapVars, clientVars, runVars, queryVars, reads, bootstrap, bucket, bucket0, ops, clock, faults, ctlVars, poolVars>>

\* The results of executor.map not taken: exceptions stay in their futures
AllDone_IgnoringExceptions == \A i \in DOMAIN pool : pool[i].st \in {"done", "failed"}

\* Every result was taken without an exception
AllDone == \A i \in DOMAIN pool : pool[i].st = "done"

\* sync_packages returning after the packages, without syncing the repodata
PoolReturn_SkipRepodata ==
    /\ pc \in {"pool_packages", "pool_repodata"}
    /\ ~raising
    /\ \A i \in DOMAIN pool : pool[i].st = "done"
    /\ Running = {}
    /\ completed' = completed \cup {pool[i].obj.destination : i \in DOMAIN pool}
    /\ pool' = <<>>
    /\ staged' = <<>>
    /\ pc' = IF bootstrap THEN "overwrite_repomd" ELSE "archive_repomd"
    /\ UNCHANGED <<snapVars, clientVars, runVars, queryVars, reads, bootstrap, bucket, bucket0, ops, clock, faults, upstream, ctlVars,
                   raising, dispatched, loopVars>>

\* _sync_objects returns normally: sync_packages goes on with the
\* repodata sections, or returns to _sync_repository
PoolReturn ==
    /\ pc \in {"pool_packages", "pool_repodata"}
    /\ ~raising
    /\ AllDone
    /\ (Running = {})
    /\ completed' = completed \cup {pool[i].obj.destination : i \in {j \in DOMAIN pool : pool[j].st = "done"}}
    /\ IF pc = "pool_packages"
       THEN LET repodata == parse_metadata(UpstreamUrl(repoIdx)).repodata
            IN  /\ pool' = [k \in DOMAIN repodata |-> Task(repodata[k])]
                /\ dispatched' = dispatched \cup {repodata[k].destination : k \in DOMAIN repodata}
                /\ pc' = "pool_repodata"
                /\ UNCHANGED staged
       ELSE /\ pool' = <<>>
            /\ staged' = <<>>
            /\ pc' = IF bootstrap THEN "overwrite_repomd" ELSE "archive_repomd"
            /\ UNCHANGED dispatched
    /\ UNCHANGED <<snapVars, clientVars, runVars, queryVars, reads, bootstrap, bucket, bucket0, ops, clock, faults, upstream, ctlVars,
                   raising, loopVars>>

\* ------------------------------------------------------------------------
\* Manifest and cutover
\* ------------------------------------------------------------------------
MANIFEST_DIRECTORY == <<"manifests">>

\* now(microsecond=True).replace(tzinfo=None).isoformat()
isoformat(t) == <<"T" \o ToString(t)>>

\* Mirror._build_manifest_location
build_manifest_location(base_url, t) ==
    join(join(base_url.path, MANIFEST_DIRECTORY), isoformat(t))

\* S3.copy_object
copy_object(source, destination) ==
    /\ bucket' = (trim_key(destination) :>
                    [bucket[trim_key(source)] EXCEPT !.cache = 0, !.last_modified = clock])
                 @@ bucket
    /\ ops' = ops \cup {CopyRequest(trim_key(source), trim_key(destination))}

\* manifest_location = self._build_manifest_location(...)
\* self.s3.archive_repomd(base_url=..., location=repomd_path)
ArchiveRepomd ==
    /\ pc = "archive_repomd"
    /\ LET location == build_manifest_location(UpstreamUrl(repoIdx), clock)
           repomd_path == join(location, <<"repomd.xml">>)
           source == UpstreamUrl(repoIdx).path \o REPOMD_XML
       IN  \/ /\ object_exists(bucket, source)
              /\ copy_object(source, repomd_path)
              /\ manifest_location' = location
              /\ pc' = "put_manifest"
              /\ UNCHANGED <<faults, upstream, loopVars>>
           \/ /\ \/ ~object_exists(bucket, source) /\ UNCHANGED faults
                 \/ faults < MaxFaults /\ faults' = faults + 1
              /\ SyncFailed("archive_repomd")
              /\ UNCHANGED <<bucket, ops, manifest_location>>
    /\ UNCHANGED <<snapVars, clientVars, runVars, queryVars, reads, bootstrap, bucket0, clock, last_check_time, new_packages, poolVars>>

\* A manifest whose previous_repomd names the live index, not its archive
Manifest_LiveRepomd(previous_repomd, synced_packages) ==
    [previous_repomd |-> UpstreamUrl(repoIdx).path \o REPOMD_XML,
     synced_packages |-> synced_packages]

\* Manifest(update_time, upstream_repository, previous_repomd, synced_packages)
Manifest(previous_repomd, synced_packages) ==
    [previous_repomd |-> previous_repomd, synced_packages |-> synced_packages]

\* self.s3.put_manifest(location=manifest_path, manifest=manifest)
PutManifest ==
    /\ pc = "put_manifest"
    /\ LET repomd_path == join(manifest_location, <<"repomd.xml">>)
           manifest_path == join(manifest_location, <<"manifest.json">>)
       IN  \/ /\ bucket' = (trim_key(manifest_path) :>
                              [S3Object("manifest.json", DEFAULT_CACHE_AGE, clock)
                                 EXCEPT !.manifest = Manifest(repomd_path, Range(new_packages))])
                           @@ bucket
              /\ ops' = ops \cup {PutRequest(trim_key(manifest_path), "manifest.json", DEFAULT_CACHE_AGE)}
              /\ pc' = "overwrite_repomd"
              /\ UNCHANGED <<faults, upstream, loopVars>>
           \/ /\ faults < MaxFaults /\ faults' = faults + 1
              /\ SyncFailed("put_manifest")
              /\ UNCHANGED <<bucket, ops>>
    /\ UNCHANGED <<snapVars, clientVars, runVars, queryVars, reads, bootstrap, bucket0, clock, ctlVars, poolVars>>

\* def overwrite_repomd(self, repomd_xml_local_path, base_url)
OverwriteRepomdParameters == {"repomd_xml_local_path", "base_url"}

\* self.s3.overwrite_repomd(base_url=upstream_repository.base_url)
CutoverArguments == {"base_url"}

\* A Python call binds iff every parameter without a default gets an
\* argument and no argument is left over; otherwise it raises TypeError
CallBinds(parameters, arguments) == parameters = arguments

\* The cutover issued, with a local file, before the transfers
OverwriteRepomd_BeforeTransfer ==
    /\ pc = "sync_packages"
    /\ put_object(HttpGet(UrlOf(UpstreamUrl(repoIdx), REPOMD_XML)).body,
                  UpstreamUrl(repoIdx).path \o REPOMD_XML, 0)
    /\ UNCHANGED <<snapVars, clientVars, runVars, queryVars, reads, bootstrap, bucket0, clock, faults, upstream, pc, ctlVars, poolVars, loopVars>>

\* self.s3.overwrite_repomd(...): S3.overwrite_repomd puts the local file
\* at <base_url path>repodata/repomd.xml with cache_age=0
OverwriteRepomd ==
    /\ pc = "overwrite_repomd"
    /\ IF CallBinds(OverwriteRepomdParameters, CutoverArguments)
       THEN /\ put_object(HttpGet(UrlOf(UpstreamUrl(repoIdx), REPOMD_XML)).body,
                          UpstreamUrl(repoIdx).path \o REPOMD_XML, 0)
            /\ SyncReturned("done")
       ELSE /\ SyncFailed("overwrite_repomd")
            /\ UNCHANGED <<bucket, ops>>
    /\ UNCHANGED <<snapVars, clientVars, runVars, queryVars, reads, bootstrap, bucket0, clock, faults, ctlVars, poolVars>>

\* return sync_success
SyncReturn ==
    /\ pc = "loop" /\ repoIdx > Len(Repositories)
    /\ returned = "running"
    /\ returned' = IF sync_success THEN "True" ELSE "False"
    /\ pc' = "returned"
    /\ UNCHANGED <<snapVars, clientVars, runVars, queryVars, reads, bootstrap, bucket, bucket0, ops, clock, faults, upstream, repoIdx,
                   stat, sync_success, ctlVars, poolVars>>

NextSync ==
    \/ StartRepository
    \/ ParseUpstream
    \/ RepomdUpdateTime
    \/ HasUpdates
    \/ ParseMirror
    \/ SyncPackages
    \/ \E i \in DOMAIN pool : StartTask(i)
    \/ \E i \in DOMAIN pool : Download(i)
    \/ \E i \in DOMAIN pool : Validate(i)
    \/ \E i \in DOMAIN pool : Put(i)
    \/ \E i \in DOMAIN pool : PutWorkaround(i)
    \/ \E i \in DOMAIN pool : Unlink(i)
    \/ PoolObserveFailure
    \/ PoolRaise
    \/ PoolReturn
    \/ ArchiveRepomd
    \/ PutManifest
    \/ OverwriteRepomd
    \/ SyncReturn

SpecSync == InitSync /\ [][NextSync]_vars

\* ------------------------------------------------------------------------
\* Two consecutive invocations of Mirror.sync() on upstreams that do not
\* change in between
\* ------------------------------------------------------------------------
InitResync ==
    /\ InitMirror
    /\ ~bootstrap
    /\ invocation = 1
    /\ served \in UnchangedUpstreams
    /\ (repository = <<>> /\ traversed = <<>> /\ download = <<>> /\ class_config = DEFAULTS /\ config = <<>>)

\* sync() is invoked again after it returned: bucket0 is the bucket as
\* the first invocation left it
SyncAgain ==
    /\ pc = "returned" /\ invocation = 1
    /\ invocation' = 2
    /\ bucket0' = bucket
    /\ ops' = {} /\ reads' = {}
    /\ repoIdx' = 1
    /\ pc' = "loop"
    /\ stat' = [i \in RepoIds |-> NotRun]
    /\ sync_success' = TRUE
    /\ returned' = "running"
    /\ UNCHANGED <<snapVars, clientVars, queryVars, served, bootstrap, bucket, clock, faults, upstream,
                   ctlVars, poolVars, repository, traversed, download, class_config, config>>


SpecResync == InitResync /\ [][(NextSync \/ SyncAgain)]_vars

\* ------------------------------------------------------------------------
\* Mirror.sync(bootstrap=True) over a bucket an earlier bootstrap wrote to
\* ------------------------------------------------------------------------

InterruptedObjects(i, t) ==
    LET files == {[path |-> RepoPath(i) \o PkgHref(n), body |-> RpmBody(n)] : n \in {"a", "g"}}
    IN  [k \in {trim_key(f.path) : f \in files} |->
            S3Object((CHOOSE f \in files : trim_key(f.path) = k).body, DEFAULT_CACHE_AGE, t)]

BootstrapBucketOf(i, m) ==
    IF m = "none" THEN EmptyBucket
    ELSE IF m = "plus" THEN MirrorObjects(i, "plus", MirrorTime)
    ELSE InterruptedObjects(i, MirrorTime)


InitBootstrap ==
    /\ bootstrap = TRUE
    /\ \E m \in [RepoIds -> {"none", "plus", "interrupted"}] :
          bucket = [k \in UNION {DOMAIN BootstrapBucketOf(i, m[i]) : i \in RepoIds} |->
                  LET i == CHOOSE i \in RepoIds : k \in DOMAIN BootstrapBucketOf(i, m[i])
                  IN  BootstrapBucketOf(i, m[i])[k]]
    /\ bucket0 = bucket
    /\ ops = {}
    /\ reads = {}
    /\ clock = StartTime
    /\ faults = 0
    /\ upstream = NoUpstream
    /\ repoIdx = 1
    /\ pc = "loop"
    /\ last_check_time = 0
    /\ new_packages = <<>>
    /\ manifest_location = <<>>
    /\ pool = <<>>
    /\ raising = FALSE
    /\ staged = <<>>
    /\ dispatched = {}
    /\ completed = {}
    /\ stat = [i \in RepoIds |-> NotRun]
    /\ sync_success = TRUE
    /\ returned = "running"
    /\ snapshot_id = <<>>
    /\ snapshot = NoSnapshot
    /\ cursor = 0
    /\ ClientAtRest
    /\ (invocation = 1 /\ served = <<>>)
    /\ (repository = <<>> /\ traversed = <<>> /\ download = <<>> /\ class_config = DEFAULTS /\ config = <<>>)
    /\ QueriesAtRest

\* The steps of Mirror.sync that a bootstrap takes
NextBootstrap ==
    \/ StartRepository
    \/ ParseUpstream
    \/ SyncPackages
    \/ \E i \in DOMAIN pool : StartTask(i)
    \/ \E i \in DOMAIN pool : Download(i)
    \/ \E i \in DOMAIN pool : Validate(i)
    \/ \E i \in DOMAIN pool : Put(i)
    \/ \E i \in DOMAIN pool : PutWorkaround(i)
    \/ \E i \in DOMAIN pool : Unlink(i)
    \/ PoolObserveFailure
    \/ PoolRaise
    \/ PoolReturn
    \/ OverwriteRepomd
    \/ SyncReturn

SpecBootstrap == InitBootstrap /\ [][NextBootstrap]_vars

\* ------------------------------------------------------------------------
\* Mirror.snapshot (mirror.py, repository.py)
\* ------------------------------------------------------------------------
\* Identifiers as token sequences; the first three match VALID_SNAPSHOT_REGEX
\* (re.match lets $ match before a trailing newline)
SnapshotIds == {<<"s1">>, <<"s1", "0">>, <<"s1", "\n">>, <<"s1", "/", "x">>}
MatchesSnapshotRegex(id) == id # <<>> /\ \A k \in DOMAIN id : id[k] \in {"s1", "0"} \/ (k = Len(id) /\ k > 1 /\ id[k] = "\n")

\* The test for a newline left out
HasNewline_Never(id) == FALSE

\* "\n" in snapshot_id
HasNewline(id) == \E k \in DOMAIN id : id[k] = "\n"

\* util.get_snapshot_directory, util.get_snapshot_path
get_snapshot_directory(base_path, id) == join(join(base_path, <<"snapshots">>), id)
get_snapshot_path(base_path, id, file_path) ==
    join(join(get_snapshot_directory(base_path, id), <<"repodata">>), basename(file_path))

\* S3.exists: list(prefix) does not raise S3DirectoryNotFound
exists(b, prefix) == ListKeys(b, prefix) # {}

\* The sections create_snapshot has copied rather than rewritten
IsSyncFile(location) ==
    \/ endswith(location, <<".xml.gz">>)
    \/ endswith(location, <<"updateinfo", ".xml.xz">>)
    \/ endswith(location, <<"modules", ".yaml.gz">>)

\* create_snapshot raises nothing: repomd.xml is served and parses, the
\* primary section is served and passes download_repodata_section's
\* validate_checksum
CanCreateSnapshot(base_url) ==
    LET r == HttpGet(UrlOf(base_url, REPOMD_XML))
    IN  /\ r.status = 200
        /\ (r.body \in ({RepomdBody(s) : s \in Versions} \cup {SnapshotRepomdBody(s) : s \in Versions}))
        /\ LET primary == CHOOSE x \in Range(parse_repomd(base_url, r.body)) : x.type = "primary"
               g == HttpGet(UrlOf(base_url, primary.location))
           IN  /\ g.status = 200
               /\ primary.checksum_type = "sha256"
               /\ sha256(g.body) = primary.checksum

\* RPMRepository.create_snapshot: RepoDataFiles(sync_files, upload_files)
create_snapshot(base_url) ==
    LET response == HttpGet(UrlOf(base_url, REPOMD_XML))
        repomd_xml == safe_parse_xml(response.body)
        repodata == parse_repomd(base_url, response.body)
        primary == CHOOSE x \in Range(repodata) : x.type = "primary"
        snapshot_primary == rewrite_primary(HttpGet(UrlOf(base_url, primary.location)).body)
        rewritten == rewrite_repomd(repomd_xml, snapshot_primary, "primary")
        sections == SelectSeq(repodata, LAMBDA x : IsSyncFile(x.location))
    IN  [sync_files |-> [k \in DOMAIN sections |-> join(base_url.path, sections[k].location)],
         upload_files |-> << [local_path |-> <<"repomd.xml">>, body |-> tostring(rewritten)],
                             [local_path |-> snapshot_primary.local_path,
                              body |-> snapshot_primary.body] >>]

\* What a completed snapshot `id` of the mirror of version s of repository i holds
SnapshotObjects(i, s, id, t) ==
    LET base_path == Tail(RepoPath(i))
        copied == {d \in Range(RepomdData(s)) : IsSyncFile(d.href)}
        rw == rewrite_primary(PrimaryBody(s))
        files == {[path |-> get_snapshot_path(base_path, id, d.href), body |-> d.body, cache |-> 0] : d \in copied}
                 \cup {[path |-> get_snapshot_path(base_path, id, <<"repomd.xml">>),
                        body |-> SnapshotRepomdBody(s), cache |-> DEFAULT_CACHE_AGE],
                       [path |-> get_snapshot_path(base_path, id, rw.local_path),
                        body |-> rw.body, cache |-> DEFAULT_CACHE_AGE]}
    IN  [k \in {f.path : f \in files} |->
            LET f == CHOOSE f \in files : f.path = k IN S3Object(f.body, f.cache, t)]


SnapshotBucketOf(i, m) ==
    IF m = "none" THEN EmptyBucket
    ELSE IF m \in Versions THEN MirrorObjects(i, m, MirrorTime)
    ELSE SnapshotObjects(i, "old", <<"s1", "0">>, MirrorTime) @@ MirrorObjects(i, "old", MirrorTime)


InitSnapshot ==
    /\ snapshot_id \in SnapshotIds
    /\ \E m \in [RepoIds -> {"none", "old", "sqlite", "snap"}] :
          bucket = [k \in UNION {DOMAIN SnapshotBucketOf(i, m[i]) : i \in RepoIds} |->
                  SnapshotBucketOf(CHOOSE i \in RepoIds : k \in DOMAIN SnapshotBucketOf(i, m[i]), m[CHOOSE i \in RepoIds : k \in DOMAIN SnapshotBucketOf(i, m[i])])[k]]
    /\ bucket0 = bucket
    /\ ops = {}
    /\ reads = {}
    /\ clock = StartTime
    /\ faults = 0
    /\ repoIdx = 1
    /\ pc = "validate_snapshot_id"
    /\ stat = [i \in RepoIds |-> NotRun]
    /\ returned = "running"
    /\ snapshot = NoSnapshot
    /\ cursor = 0
    /\ bootstrap = FALSE
    /\ upstream = NoUpstream
    /\ last_check_time = 0
    /\ new_packages = <<>>
    /\ manifest_location = <<>>
    /\ pool = <<>>
    /\ raising = FALSE
    /\ staged = <<>>
    /\ dispatched = {}
    /\ completed = {}
    /\ sync_success = TRUE
    /\ ClientAtRest
    /\ (invocation = 1 /\ served = <<>>)
    /\ (repository = <<>> /\ traversed = <<>> /\ download = <<>> /\ class_config = DEFAULTS /\ config = <<>>)
    /\ QueriesAtRest


\* The directory built from repository.path with its leading slash
ValidatedDirectory_Untrimmed(i) == get_snapshot_directory(RepoPath(i), snapshot_id)

\* The directory _validate_snapshot_id tests for repository i
ValidatedDirectory(i) == get_snapshot_directory(Tail(RepoPath(i)), snapshot_id)

\* Mirror._validate_snapshot_id: the loop over the repositories ends at
\* the first directory that exists
ValidateSnapshotId ==
    /\ pc = "validate_snapshot_id"
    /\ IF ~MatchesSnapshotRegex(snapshot_id) \/ HasNewline(snapshot_id)
       THEN /\ returned' = "InvalidSnapshotID" /\ pc' = "returned"
            /\ UNCHANGED reads
       ELSE LET found == {i \in RepoIds : exists(bucket, ValidatedDirectory(i))}
                last == IF found = {} THEN Len(Repositories) ELSE (CHOOSE x \in found : \A y \in found : x <= y)
            IN  /\ reads' = reads \cup {([op |-> "LIST", key |-> (ValidatedDirectory(i)), repo |-> i, task |-> 0]) : i \in 1..last}
                /\ IF found # {}
                   THEN returned' = "InvalidSnapshotID" /\ pc' = "returned"
                   ELSE pc' = "snapshot_loop" /\ UNCHANGED returned
    /\ UNCHANGED <<syncVars, clientVars, runVars, queryVars, snapVars, bucket, bucket0, ops, clock, faults, repoIdx, stat>>

\* for upstream_repository in self.repositories: try: self._snapshot_repository(...)
SnapshotRepository ==
    /\ pc = "snapshot_loop" /\ repoIdx <= Len(Repositories)
    /\ pc' = "create_snapshot"
    /\ snapshot' = NoSnapshot
    /\ cursor' = 0
    /\ UNCHANGED <<syncVars, clientVars, runVars, queryVars, reads, snapshot_id, bucket, bucket0, ops, clock, faults, repoIdx,
                   stat, returned>>

\* An exception leaves _snapshot_repository: except Exception in Mirror.snapshot
SnapshotFailed(at) ==
    /\ stat' = [stat EXCEPT ![repoIdx].outcome = "failed", ![repoIdx].failed_at = at]
    /\ pc' = "try_remove_snapshots"
    /\ cursor' = 1

\* repository.create_snapshot(scratch_dir=temp_dir)
CreateSnapshot ==
    /\ pc = "create_snapshot"
    /\ LET base_url == build_s3_url(UpstreamUrl(repoIdx))
       IN  \/ /\ CanCreateSnapshot(base_url)
              /\ snapshot' = create_snapshot(base_url)
              /\ cursor' = 1
              /\ pc' = "copy_object"
              /\ UNCHANGED <<faults, stat>>
           \/ /\ \/ ~CanCreateSnapshot(base_url) /\ UNCHANGED faults
                 \/ faults < MaxFaults /\ faults' = faults + 1
              /\ SnapshotFailed("create_snapshot")
              /\ UNCHANGED snapshot
    /\ UNCHANGED <<syncVars, clientVars, runVars, queryVars, reads, snapshot_id, bucket, bucket0, ops, clock, repoIdx, returned>>

\* for file_path in snapshot.sync_files: self.s3.copy_object(...)
CopySyncFile ==
    /\ pc = "copy_object" /\ cursor <= Len(snapshot.sync_files)
    /\ LET base_path == Tail(build_s3_url(UpstreamUrl(repoIdx)).path)
           file_path == snapshot.sync_files[cursor]
       IN  \/ /\ object_exists(bucket, file_path)
              /\ copy_object(file_path, get_snapshot_path(base_path, snapshot_id, file_path))
              /\ cursor' = IF cursor = Len(snapshot.sync_files) THEN 1 ELSE cursor + 1
              /\ pc' = IF cursor = Len(snapshot.sync_files) THEN "put_object" ELSE pc
              /\ UNCHANGED <<faults, stat>>
           \/ /\ \/ ~object_exists(bucket, file_path) /\ UNCHANGED faults
                 \/ faults < MaxFaults /\ faults' = faults + 1
              /\ SnapshotFailed("copy_object")
              /\ UNCHANGED <<bucket, ops>>
    /\ UNCHANGED <<syncVars, clientVars, runVars, queryVars, reads, snapshot_id, snapshot, bucket0, clock, repoIdx, returned>>

\* for file_path in snapshot.upload_files: self.s3.put_object(...)
PutUploadFile ==
    /\ pc = "put_object" /\ cursor <= Len(snapshot.upload_files)
    /\ LET base_path == Tail(build_s3_url(UpstreamUrl(repoIdx)).path)
           file == snapshot.upload_files[cursor]
           last == cursor = Len(snapshot.upload_files)
       IN  \/ /\ put_object(file.body,
                            get_snapshot_path(base_path, snapshot_id, file.local_path),
                            DEFAULT_CACHE_AGE)
              /\ cursor' = IF last THEN 0 ELSE cursor + 1
              /\ pc' = IF last THEN "snapshot_loop" ELSE pc
              /\ repoIdx' = IF last THEN repoIdx + 1 ELSE repoIdx
              /\ stat' = IF last THEN [stat EXCEPT ![repoIdx].outcome = "done"] ELSE stat
              /\ UNCHANGED faults
           \/ /\ faults < MaxFaults /\ faults' = faults + 1
              /\ SnapshotFailed("put_object")
              /\ UNCHANGED <<bucket, ops, repoIdx>>
    /\ UNCHANGED <<syncVars, clientVars, runVars, queryVars, reads, snapshot_id, snapshot, bucket0, clock, returned>>


\* Mirror._try_remove_snapshots, one repository of its loop:
\* S3.delete_subdirectory lists the prefix as given and deletes what is
\* listed; S3DirectoryNotFound is suppressed, any other error is logged
TryRemoveSnapshots ==
    /\ pc = "try_remove_snapshots" /\ cursor <= Len(Repositories)
    /\ LET snapshot_dir == get_snapshot_directory(RepoPath(cursor), snapshot_id)
           objects == ListKeys(bucket, snapshot_dir)
       IN  /\ reads' = reads \cup {([op |-> "LIST", key |-> snapshot_dir, repo |-> cursor, task |-> 0])}
           /\ \/ /\ objects = {}
                 /\ UNCHANGED <<bucket, ops, faults>>
              \/ /\ objects # {}
                 /\ bucket' = [k \in DOMAIN bucket \ objects |-> bucket[k]]
                 /\ ops' = ops \cup {[op |-> "DELETE", key |-> k, src |-> <<>>, body |-> "", cache |-> 0,
                                        repo |-> cursor, acl |-> "", md5 |-> ""] : k \in objects}
                 /\ UNCHANGED faults
              \/ /\ faults < MaxFaults /\ faults' = faults + 1
                 /\ UNCHANGED <<bucket, ops>>
    /\ cursor' = cursor + 1
    /\ pc' = IF cursor = Len(Repositories) THEN "raise" ELSE pc
    /\ UNCHANGED <<syncVars, clientVars, runVars, queryVars, snapshot_id, snapshot, bucket0, clock, repoIdx, stat, returned>>

\* raise Exception("Failed to snapshot repositories") from e
SnapshotRaise ==
    /\ pc = "raise"
    /\ returned' = "Exception"
    /\ pc' = "returned"
    /\ UNCHANGED <<syncVars, clientVars, runVars, queryVars, reads, snapVars, bucket, bucket0, ops, clock, faults, repoIdx, stat>>

\* The loop of Mirror.snapshot ends: the call returns None
SnapshotReturn ==
    /\ pc = "snapshot_loop" /\ repoIdx > Len(Repositories)
    /\ returned' = "None"
    /\ pc' = "returned"
    /\ UNCHANGED <<syncVars, clientVars, runVars, queryVars, reads, snapVars, bucket, bucket0, ops, clock, faults, repoIdx, stat>>

NextSnapshot ==
    \/ ValidateSnapshotId
    \/ SnapshotRepository
    \/ CreateSnapshot
    \/ CopySyncFile
    \/ PutUploadFile
    \/ TryRemoveSnapshots
    \/ SnapshotRaise
    \/ SnapshotReturn

SpecSnapshot == InitSnapshot /\ [][NextSnapshot]_vars

\* ------------------------------------------------------------------------
\* Mirror.sync_snapshot (mirror.py): a snapshot copied from another mirror
\* ------------------------------------------------------------------------
\* session.get(url) against the mirror the snapshot is synced from: it
\* holds snapshot_id of version s of the current repository, or nothing
SourceGet(s, path) ==
    LET objects == IF s = NoUpstream THEN EmptyBucket
                   ELSE SnapshotObjects(repoIdx, s, snapshot_id, MirrorTime)
    IN  IF trim_key(path) \in DOMAIN objects
        THEN [status |-> 200, body |-> objects[trim_key(path)].body]
        ELSE [status |-> 403, body |-> ""]

\* for upstream_repo in self.config.upstream_repositories: the temporary
\* directory is made and repomd.xml is downloaded into it
SyncSnapshotRepository ==
    /\ pc = "snapshot_loop" /\ repoIdx <= Len(Repositories)
    /\ \E s \in Versions \cup {NoUpstream} :
          LET snapshot_root == get_snapshot_directory(RepoPath(repoIdx), snapshot_id)
              metadata_url == join(join(snapshot_root, <<"repodata">>), <<"repomd.xml">>)
              r == SourceGet(s, metadata_url)
          IN  /\ upstream' = s
              /\ \/ /\ r.status = 200
                    /\ staged' = (basename(metadata_url) :> r.body)
                    /\ cursor' = 1
                    /\ pc' = "download_file"
                    /\ UNCHANGED <<faults, returned>>
                 \/ /\ \/ r.status # 200 /\ UNCHANGED faults
                       \/ faults < MaxFaults /\ faults' = faults + 1
                    /\ returned' = "HTTPError"
                    /\ pc' = "returned"
                    /\ UNCHANGED <<staged, cursor>>
    /\ UNCHANGED <<clientVars, runVars, queryVars, ctlVars, bootstrap, sync_success, pool, raising,
                   dispatched, completed, reads, snapshot_id, snapshot, bucket, bucket0, ops, clock,
                   repoIdx, stat>>

\* for repo_object in repodata.values(): download_file, validate_checksum,
\* put_object at join(snapshot_path, repo_object.location)
SyncSnapshotSection ==
    /\ pc = "download_file"
    /\ LET snapshot_root == get_snapshot_directory(RepoPath(repoIdx), snapshot_id)
           repodata == parse_repomd([host |-> "upstream", path |-> snapshot_root \o <<"/">>],
                                    staged[<<"repomd.xml">>])
           repo_object == repodata[cursor]
           r == SourceGet(upstream, repo_object.url.path)
       IN  \/ /\ r.status = 200
              /\ ChecksumValid(repo_object, r.body)
              /\ local_path' = StagedName(repo_object)
              /\ staged' = (StagedName(repo_object) :> r.body) @@ staged
              /\ put_object(r.body, join(snapshot_root, repo_object.location), DEFAULT_CACHE_AGE)
              /\ cursor' = cursor + 1
              /\ pc' = IF cursor = Len(repodata) THEN "put_repomd" ELSE pc
              /\ UNCHANGED <<faults, returned>>
           \/ /\ \/ (r.status # 200 \/ ~ChecksumValid(repo_object, r.body)) /\ UNCHANGED faults
                 \/ faults < MaxFaults /\ faults' = faults + 1
              /\ returned' = "Exception"
              /\ pc' = "returned"
              /\ UNCHANGED <<staged, local_path, bucket, ops, cursor>>
    /\ UNCHANGED <<clientVars, runVars, snapshots, diff, old_snapshot, new_snapshot, ctlVars, bootstrap,
                   sync_success, pool, raising, dispatched, completed, reads, snapshot_id, snapshot,
                   bucket0, clock, upstream, repoIdx, stat>>

\* self.s3.put_object(local_path=local_path, key=repomd_destination):
\* local_path is the variable the loop over the sections has left
SyncSnapshotPutRepomd ==
    /\ pc = "put_repomd"
    /\ LET snapshot_path == get_snapshot_directory(RepoPath(repoIdx), snapshot_id)
           repomd_destination == join(join(snapshot_path, <<"repodata">>), <<"repomd.xml">>)
       IN  \/ /\ put_object(staged[local_path], repomd_destination, DEFAULT_CACHE_AGE)
              /\ stat' = [stat EXCEPT ![repoIdx].outcome = "done"]
              /\ repoIdx' = repoIdx + 1
              /\ pc' = "snapshot_loop"
              /\ UNCHANGED <<faults, returned>>
           \/ /\ faults < MaxFaults /\ faults' = faults + 1
              /\ returned' = "Exception"
              /\ pc' = "returned"
              /\ UNCHANGED <<bucket, ops, stat, repoIdx>>
    /\ UNCHANGED <<clientVars, runVars, queryVars, ctlVars, bootstrap, sync_success, pool, raising,
                   staged, dispatched, completed, reads, snapshot_id, snapshot, cursor, bucket0, clock,
                   upstream>>

NextSyncSnapshot ==
    \/ ValidateSnapshotId
    \/ SyncSnapshotRepository
    \/ SyncSnapshotSection
    \/ SyncSnapshotPutRepomd
    \/ SnapshotReturn

SpecSyncSnapshot == InitSnapshot /\ [][NextSyncSnapshot]_vars

\* ------------------------------------------------------------------------
\* Mirror.list_snapshots and Mirror.diff_snapshots (mirror.py)
\* ------------------------------------------------------------------------
\* What a bucket holds of snapshot `id` of repository i: nothing, the
\* sections without repomd.xml ("partial"), or a complete snapshot of
\* version s, whose repomd.xml was written after its sections
HeldSnapshot(i, id, s) ==
    LET o == SnapshotObjects(i, IF s = "partial" THEN "old" ELSE s, id, MirrorTime - 1)
        key == get_snapshot_path(Tail(RepoPath(i)), id, <<"repomd.xml">>)
    IN  IF s = "none" THEN EmptyBucket
        ELSE IF s = "partial" THEN [k \in DOMAIN o \ {key} |-> o[k]]
        ELSE (key :> [o[key] EXCEPT !.last_modified = MirrorTime]) @@ o

\* list_snapshots(), or diff_snapshots(old_snapshot, new_snapshot), is
\* invoked on a bucket that holds some snapshots
InitQueries ==
    /\ \E m \in [RepoIds \X {<<"s1">>, <<"s1", "0">>} -> {"none", "partial", "old", "plus", "md5"}] :
          LET parts == {HeldSnapshot(p[1], p[2], m[p]) : p \in DOMAIN m}
          IN  bucket = [k \in UNION {DOMAIN o : o \in parts} |-> (CHOOSE o \in parts : k \in DOMAIN o)[k]]
    /\ \/ pc = "list_snapshots" /\ old_snapshot = <<>> /\ new_snapshot = <<>>
       \/ /\ pc = "diff_snapshots"
          /\ old_snapshot \in {<<"s1">>, <<"s1", "0">>}
          /\ new_snapshot \in {<<"s1">>, <<"s1", "0">>}
    /\ local_path = <<>> /\ snapshots = <<>> /\ diff = <<>>
    /\ bucket0 = bucket
    /\ ops = {}
    /\ reads = {}
    /\ clock = StartTime
    /\ faults = 0
    /\ repoIdx = 1
    /\ stat = [i \in RepoIds |-> NotRun]
    /\ returned = "running"
    /\ snapshot_id = <<>>
    /\ snapshot = NoSnapshot
    /\ cursor = 0
    /\ bootstrap = FALSE
    /\ upstream = NoUpstream
    /\ last_check_time = 0
    /\ new_packages = <<>>
    /\ manifest_location = <<>>
    /\ pool = <<>>
    /\ raising = FALSE
    /\ staged = <<>>
    /\ dispatched = {}
    /\ completed = {}
    /\ sync_success = TRUE
    /\ ClientAtRest
    /\ (invocation = 1 /\ served = <<>>)
    /\ (repository = <<>> /\ traversed = <<>> /\ download = <<>> /\ class_config = DEFAULTS /\ config = <<>>)

\* for repository in self.repositories: results = self.s3.list(prefix[1:]),
\* which raises S3DirectoryNotFound for an empty listing; of the keys that
\* end with repomd.xml, SNAPSHOT_REGEX.search finds the identifier between
\* "/snapshots/" and "/repodata"
ListSnapshotsRepository ==
    /\ pc = "list_snapshots" /\ repoIdx <= Len(Repositories)
    /\ LET repo_path == RepoPath(repoIdx)
           prefix == join(repo_path, <<"snapshots">>)
           results == ListKeys(bucket, Tail(prefix))
           match(key) == {id \in {SubSeq(key, a, b) : a, b \in 1..Len(key)} :
                             /\ id # <<>> /\ \A k \in DOMAIN id : id[k] \in {"s1", "0"}
                             /\ \E a \in 4..Len(key) :
                                   /\ SubSeq(key, a - 3, a - 1) = <<"/", "snapshots", "/">>
                                   /\ SubSeq(key, a, a + Len(id) + 1) = id \o <<"/", "repodata">>}
           found == {k \in results : endswith(k, <<"repomd.xml">>) /\ match(k) # {}}
       IN  /\ reads' = reads \cup {[op |-> "LIST", key |-> Tail(prefix), repo |-> repoIdx, task |-> 0]}
           /\ \/ /\ results # {}
                 /\ snapshots' = [p \in {<<repo_path, id>> : id \in UNION {match(k) : k \in found}} |->
                                    bucket[CHOOSE k \in found : p[2] \in match(k)].last_modified] @@ snapshots
                 /\ repoIdx' = repoIdx + 1
                 /\ UNCHANGED <<pc, returned, faults>>
              \/ /\ \/ results = {} /\ returned' = "S3DirectoryNotFound" /\ UNCHANGED faults
                    \/ faults < MaxFaults /\ faults' = faults + 1 /\ returned' = "ClientError"
                 /\ pc' = "returned"
                 /\ UNCHANGED <<snapshots, repoIdx>>
    /\ UNCHANGED <<syncVars, clientVars, runVars, snapVars, local_path, diff, old_snapshot, new_snapshot,
                   bucket, bucket0, ops, clock, stat>>

\* The comparison that always sends diff_snapshots to parse_metadata
primary_xml_checksums_equal_Never(repo1, repo2) == FALSE

\* util.primary_xml_checksums_equal: the primary checksums that the two
\* repositories' repomd.xml record
primary_xml_checksums_equal(repo1, repo2) ==
    LET primary(r) == CHOOSE x \in Range(parse_repomd(r, HttpGet(UrlOf(r, REPOMD_XML)).body)) : x.type = "primary"
    IN  primary(repo1).checksum = primary(repo2).checksum

\* One repository of the loop of diff_snapshots: repo1 is the new
\* snapshot, repo2 the old one; parse_metadata is reached only when
\* primary_xml_checksums_equal answers False
DiffSnapshotsRepository ==
    /\ pc = "diff_snapshots" /\ repoIdx <= Len(Repositories)
    /\ LET create_mirror_repo(snap) ==
               build_s3_url([host |-> "upstream",
                             path |-> get_snapshot_directory(RepoPath(repoIdx), snap) \o <<"/">>])
           repo1 == create_mirror_repo(new_snapshot)
           repo2 == create_mirror_repo(old_snapshot)
           Get(base_url, path) == [op |-> "GET", key |-> trim_key(base_url.path \o path), repo |-> repoIdx, task |-> 0]
           primary(r) == CHOOSE x \in Range(parse_repomd(r, HttpGet(UrlOf(r, REPOMD_XML)).body)) : x.type = "primary"
           served1 == HttpGet(UrlOf(repo1, REPOMD_XML)).status = 200
           served2 == HttpGet(UrlOf(repo2, REPOMD_XML)).status = 200
           repo1_snapshot_list == parse_metadata(repo1).package_list
           repo2_snapshot_list == parse_metadata(repo2).package_list
           changed_packages == PackageDifference(repo2_snapshot_list, repo1_snapshot_list)
           new_packages_by_name(n) ==
               repo1_snapshot_list[MaxOf({k \in DOMAIN repo1_snapshot_list : repo1_snapshot_list[k].name = n})]
           names == {p.name : p \in changed_packages} \cap {q.name : q \in Range(repo1_snapshot_list)}
       IN  \/ /\ served1 /\ served2
              /\ primary_xml_checksums_equal(repo1, repo2)
              /\ reads' = reads \cup {Get(repo1, REPOMD_XML), Get(repo2, REPOMD_XML)}
              /\ repoIdx' = repoIdx + 1
              /\ UNCHANGED <<diff, pc, returned, faults>>
           \/ /\ served1 /\ served2
              /\ ~primary_xml_checksums_equal(repo1, repo2)
              /\ CanParseMetadata(repo1) /\ CanParseMetadata(repo2)
              /\ reads' = reads \cup {Get(repo1, REPOMD_XML), Get(repo2, REPOMD_XML),
                                      Get(repo1, primary(repo1).location), Get(repo2, primary(repo2).location)}
              /\ \E last \in [names -> changed_packages] :
                    /\ \A n \in names : last[n].name = n
                    /\ diff' = (RepoPath(repoIdx) :>
                                   [updated |-> [n \in names |->
                                       << <<last[n].version, last[n].release>>,
                                          <<new_packages_by_name(n).version, new_packages_by_name(n).release>> >>]])
                               @@ diff
              /\ repoIdx' = repoIdx + 1
              /\ UNCHANGED <<pc, returned, faults>>
           \/ /\ \/ /\ ~served1
                    /\ reads' = reads \cup {Get(repo1, REPOMD_XML)}
                    /\ UNCHANGED faults
                 \/ /\ served1 /\ ~served2
                    /\ reads' = reads \cup {Get(repo1, REPOMD_XML), Get(repo2, REPOMD_XML)}
                    /\ UNCHANGED faults
                 \/ /\ faults < MaxFaults /\ faults' = faults + 1
                    /\ reads' = reads \cup {Get(repo1, REPOMD_XML)}
              /\ returned' = "HTTPError"
              /\ pc' = "returned"
              /\ UNCHANGED <<diff, repoIdx>>
    /\ UNCHANGED <<syncVars, clientVars, runVars, snapVars, local_path, snapshots, old_snapshot, new_snapshot,
                   bucket, bucket0, ops, clock, stat>>

\* return snapshots / return diff
QueryReturn ==
    /\ pc \in {"list_snapshots", "diff_snapshots"} /\ repoIdx > Len(Repositories)
    /\ returned' = pc
    /\ pc' = "returned"
    /\ UNCHANGED <<syncVars, clientVars, runVars, queryVars, snapVars, reads, bucket, bucket0, ops, clock,
                   faults, repoIdx, stat>>

NextQueries ==
    \/ ListSnapshotsRepository
    \/ DiffSnapshotsRepository
    \/ QueryReturn

SpecQueries == InitQueries /\ [][NextQueries]_vars

\* ------------------------------------------------------------------------
\* S3._client (s3.py): the worker threads of the pool getting the client
\* ------------------------------------------------------------------------
\* How many times a thread reads the property
MaxCalls == 3

nonClientVars == <<syncVars, snapVars, runVars, queryVars, bucket, bucket0, ops, reads, clock, faults, repoIdx,
                   pc, stat, returned>>

\* The threads start before or after the controller's thread has made
\* the client
InitClient ==
    /\ s3_client \in {NoClient, 1}
    /\ clients = s3_client
    /\ lock = NoThread
    /\ threads = [t \in Threads |-> NoCall]
    /\ (invocation = 1 /\ served = <<>>)
    /\ (repository = <<>> /\ traversed = <<>> /\ download = <<>> /\ class_config = DEFAULTS /\ config = <<>>)
    /\ QueriesAtRest
    /\ bootstrap = FALSE
    /\ bucket = EmptyBucket
    /\ bucket0 = bucket
    /\ ops = {}
    /\ reads = {}
    /\ clock = StartTime
    /\ faults = 0
    /\ upstream = NoUpstream
    /\ repoIdx = 1
    /\ pc = "pool_packages"
    /\ last_check_time = 0
    /\ new_packages = <<>>
    /\ manifest_location = <<>>
    /\ pool = <<>>
    /\ raising = FALSE
    /\ staged = <<>>
    /\ dispatched = {}
    /\ completed = {}
    /\ stat = [i \in RepoIds |-> NotRun]
    /\ sync_success = TRUE
    /\ returned = "running"
    /\ snapshot_id = <<>>
    /\ snapshot = NoSnapshot
    /\ cursor = 0

SetThread(t, to) == threads' = [threads EXCEPT ![t].pc = to]

\* if self._s3 is None:
ClientTest(t) ==
    /\ threads[t].pc = "idle" /\ threads[t].calls < MaxCalls
    /\ threads' = [threads EXCEPT ![t].calls = @ + 1,
                                  ![t].pc = IF s3_client = NoClient THEN "acquire" ELSE "return"]
    /\ UNCHANGED <<nonClientVars, s3_client, lock, clients>>

\* The lock taken whether or not another thread holds it
ClientAcquire_Unlocked(t) ==
    /\ threads[t].pc = "acquire"
    /\ lock' = t
    /\ SetThread(t, "create_client")
    /\ UNCHANGED <<nonClientVars, s3_client, clients>>

\* with lock: the RLock is free or held by this thread
ClientAcquire(t) ==
    /\ threads[t].pc = "acquire"
    /\ lock \in {NoThread, t}
    /\ lock' = t
    /\ SetThread(t, "create_client")
    /\ UNCHANGED <<nonClientVars, s3_client, clients>>

\* self._s3 = botocore_session.create_client(...): the constructor returns
ClientCreate(t) ==
    /\ threads[t].pc = "create_client"
    /\ clients' = clients + 1
    /\ s3_client' = clients + 1
    /\ SetThread(t, "release")
    /\ UNCHANGED <<nonClientVars, lock>>

\* The with block ends
ClientRelease(t) ==
    /\ threads[t].pc = "release"
    /\ lock' = IF lock = t THEN NoThread ELSE lock
    /\ SetThread(t, "return")
    /\ UNCHANGED <<nonClientVars, s3_client, clients>>

\* return self._s3
ClientReturn(t) ==
    /\ threads[t].pc = "return"
    /\ threads' = [threads EXCEPT ![t].pc = "idle", ![t].got = s3_client]
    /\ UNCHANGED <<nonClientVars, s3_client, lock, clients>>

NextClient ==
    \/ \E t \in Threads : ClientTest(t)
    \/ \E t \in Threads : ClientAcquire(t)
    \/ \E t \in Threads : ClientCreate(t)
    \/ \E t \in Threads : ClientRelease(t)
    \/ \E t \in Threads : ClientReturn(t)

SpecClient == InitClient /\ [][NextClient]_vars

\* ------------------------------------------------------------------------
\* Operations that touch neither the bucket nor the loop of sync: the
\* constructor of RPMRepository, len() and iteration of a PackageList,
\* download_file, and the loading of a Config
\* ------------------------------------------------------------------------
InitUnits == InitClient /\ s3_client = 1

\* RPMRepository.__init__ without the test of the path
ConstructRepository_AnyPath ==
    /\ repository = <<>>
    /\ \E given \in { <<"https://", "h">>, <<"https://", "h", "/">>, <<"https://", "h", "/", "r1">>,
                      <<"https://", "h", "/", "r1", "/">>, <<"https://", "h", "/", "/", "r1">>,
                      <<"https://", "h", "/", "r1", "/", "/">>, <<"https://", "h", "/", "r1", "/", "/", "x", "/">>,
                      <<"http://", "h", "/", "r1", "/">>, <<"http://", "h", "/", "/", "r1">>,
                      <<"HTTPS://", "h", "/", "r1", "/">>, <<"https://", "h", "/", "r1", "?", "/", "/">>,
                      <<"https://", "h", "/", "r1", "?", "q">> } :
          LET base_url == IF endswith(given, <<"/">>) THEN given ELSE given \o <<"/">>
              ends == {k \in 3..Len(base_url) : base_url[k] \in {"?", "#"}} \cup {Len(base_url) + 1}
              path == SubSeq(base_url, 3, (CHOOSE k \in ends : \A j \in ends : k <= j) - 1)
          IN  repository' =
                  IF given[1] # "https://"
                  THEN [given |-> given, raised |-> "ValueError", base_url |-> <<>>, path |-> <<>>]
                  ELSE [given |-> given, raised |-> "", base_url |-> base_url, path |-> path]
    /\ UNCHANGED <<syncVars, snapVars, clientVars, queryVars, invocation, served, bucket, bucket0, ops, reads,
                   clock, faults, repoIdx, pc, stat, returned, traversed, download, class_config, config>>

\* RPMRepository.__init__: a URL is a sequence of tokens, the scheme
\* first, then the host, "/" a token of its own; urlparse ends the path
\* at the first "?" or "#"
ConstructRepository ==
    /\ repository = <<>>
    /\ \E given \in { <<"https://", "h">>, <<"https://", "h", "/">>, <<"https://", "h", "/", "r1">>,
                      <<"https://", "h", "/", "r1", "/">>, <<"https://", "h", "/", "/", "r1">>,
                      <<"https://", "h", "/", "r1", "/", "/">>, <<"https://", "h", "/", "r1", "/", "/", "x", "/">>,
                      <<"http://", "h", "/", "r1", "/">>, <<"http://", "h", "/", "/", "r1">>,
                      <<"HTTPS://", "h", "/", "r1", "/">>, <<"https://", "h", "/", "r1", "?", "/", "/">>,
                      <<"https://", "h", "/", "r1", "?", "q">> } :
          LET base_url == IF endswith(given, <<"/">>) THEN given ELSE given \o <<"/">>
              ends == {k \in 3..Len(base_url) : base_url[k] \in {"?", "#"}} \cup {Len(base_url) + 1}
              path == SubSeq(base_url, 3, (CHOOSE k \in ends : \A j \in ends : k <= j) - 1)
          IN  repository' =
                  IF given[1] # "https://"
                  THEN [given |-> given, raised |-> "ValueError", base_url |-> <<>>, path |-> <<>>]
                  ELSE IF \E k \in 1..(Len(path) - 1) : path[k] = "/" /\ path[k + 1] = "/"
                  THEN [given |-> given, raised |-> "ValueError", base_url |-> <<>>, path |-> <<>>]
                  ELSE [given |-> given, raised |-> "", base_url |-> base_url, path |-> path]
    /\ UNCHANGED <<syncVars, snapVars, clientVars, queryVars, invocation, served, bucket, bucket0, ops, reads,
                   clock, faults, repoIdx, pc, stat, returned, traversed, download, class_config, config>>

\* A PackageList whose iterator is the object itself: the second
\* traversal finds it exhausted
IteratePackageList_OneShot ==
    /\ traversed = <<>>
    /\ \E s \in Versions, miscount \in {0, 1} :
          LET packages_xml == PrimaryBody(s)
              base_url == UpstreamUrl(1)
              attribute == Len(ScenarioPkgs(s)) + miscount
          IN  traversed' = [version |-> s, attribute |-> attribute, children |-> Len(ScenarioPkgs(s)),
                            len |-> attribute,
                            first |-> PackageList(base_url, packages_xml),
                            second |-> <<>>]
    /\ UNCHANGED <<syncVars, snapVars, clientVars, queryVars, invocation, served, bucket, bucket0, ops, reads,
                   clock, faults, repoIdx, pc, stat, returned, repository, download, class_config, config>>

\* PackageList.__len__ and two traversals with PackageList.__iter__ of
\* one PackageList: __len__ is the packages attribute of the root, which
\* a document may have miscounted; __iter__ starts anew each time and
\* yields a Package per child of the root
IteratePackageList ==
    /\ traversed = <<>>
    /\ \E s \in Versions, miscount \in {0, 1} :
          LET packages_xml == PrimaryBody(s)
              base_url == UpstreamUrl(1)
              attribute == Len(ScenarioPkgs(s)) + miscount
          IN  traversed' = [version |-> s, attribute |-> attribute, children |-> Len(ScenarioPkgs(s)),
                            len |-> attribute,
                            first |-> PackageList(base_url, packages_xml),
                            second |-> PackageList(base_url, packages_xml)]
    /\ UNCHANGED <<syncVars, snapVars, clientVars, queryVars, invocation, served, bucket, bucket0, ops, reads,
                   clock, faults, repoIdx, pc, stat, returned, repository, download, class_config, config>>

\* download_file that tries again after every 403
DownloadFile_AnyForbidden ==
    /\ download = <<>>
    /\ \E url \in [host : {"h"}, query : {<<>>, <<"v", "=", "1", "+", "2">>},
                   path : {<<"/", "r1", "/", "a", ".rpm">>, <<"/", "r1", "/", "g", "+", "+", ".rpm">>,
                           <<"/", "c", "+", "+", "/", "g", "+", ".rpm">>}],
          answers \in [1..2 -> ([status : {200, 403, 404}, Server : {"AmazonS3", "nginx"}]
                                \cup {[status |-> 0, Server |-> ""]})] :
          LET escaped == [url EXCEPT !.path = [k \in 1..Len(url.path) |->
                                                  IF url.path[k] = "+" THEN "%2B" ELSE url.path[k]]]
              text(u) == u.path \o (IF u.query = <<>> THEN <<>> ELSE <<"?">> \o u.query)
              raised(a) == IF a.status = 200 THEN "" ELSE IF a.status = 0 THEN "ConnectionError" ELSE "HTTPError"
              out_path(u) == <<"temp_dir", "/">> \o basename(text(u))
          IN  download' =
                  IF raised(answers[1]) = "HTTPError" /\ answers[1].status = 403
                  THEN [url |-> url, requests |-> <<url, escaped>>, answers |-> answers,
                        raised |-> raised(answers[2]),
                        out_path |-> IF raised(answers[2]) = "" THEN out_path(escaped) ELSE <<>>]
                  ELSE [url |-> url, requests |-> <<url>>, answers |-> <<answers[1]>>,
                        raised |-> raised(answers[1]),
                        out_path |-> IF raised(answers[1]) = "" THEN out_path(url) ELSE <<>>]
    /\ UNCHANGED <<syncVars, snapVars, clientVars, queryVars, invocation, served, bucket, bucket0, ops, reads,
                   clock, faults, repoIdx, pc, stat, returned, repository, traversed, class_config, config>>

\* download_file, with _download_file and _escape_s3_url: an answer is
\* what session.get ends with, after the retries the session makes by
\* itself; status 0 stands for a failure without a response. A URL is
\* its host, the tokens of its path and the tokens of its query string
DownloadFile ==
    /\ download = <<>>
    /\ \E url \in [host : {"h"}, query : {<<>>, <<"v", "=", "1", "+", "2">>},
                   path : {<<"/", "r1", "/", "a", ".rpm">>, <<"/", "r1", "/", "g", "+", "+", ".rpm">>,
                           <<"/", "c", "+", "+", "/", "g", "+", ".rpm">>}],
          answers \in [1..2 -> ([status : {200, 403, 404}, Server : {"AmazonS3", "nginx"}]
                                \cup {[status |-> 0, Server |-> ""]})] :
          LET escaped == [url EXCEPT !.path = [k \in 1..Len(url.path) |->
                                                  IF url.path[k] = "+" THEN "%2B" ELSE url.path[k]]]
              text(u) == u.path \o (IF u.query = <<>> THEN <<>> ELSE <<"?">> \o u.query)
              raised(a) == IF a.status = 200 THEN "" ELSE IF a.status = 0 THEN "ConnectionError" ELSE "HTTPError"
              out_path(u) == <<"temp_dir", "/">> \o basename(text(u))
          IN  download' =
                  IF raised(answers[1]) = "HTTPError" /\ answers[1].status = 403 /\ answers[1].Server = "AmazonS3"
                  THEN [url |-> url, requests |-> <<url, escaped>>, answers |-> answers,
                        raised |-> raised(answers[2]),
                        out_path |-> IF raised(answers[2]) = "" THEN out_path(escaped) ELSE <<>>]
                  ELSE [url |-> url, requests |-> <<url>>, answers |-> <<answers[1]>>,
                        raised |-> raised(answers[1]),
                        out_path |-> IF raised(answers[1]) = "" THEN out_path(url) ELSE <<>>]
    /\ UNCHANGED <<syncVars, snapVars, clientVars, queryVars, invocation, served, bucket, bucket0, ops, reads,
                   clock, faults, repoIdx, pc, stat, returned, repository, traversed, class_config, config>>

NextUnits ==
    \/ ConstructRepository
    \/ IteratePackageList
    \/ DownloadFile

SpecUnits == InitUnits /\ [][NextUnits]_vars

\* Config objects whose _config is a dictionary of their class alone:
\* load() then writes the defaults of the module over it
LoadConfig_OwnDictionary ==
    /\ Len(config) < MaxConfigs
    /\ \E variant \in {"ENVConfig", "JSONConfig", "DictConfig"} :
       \E K \in SUBSET {"bucket_name", "max_workers", "scratch_dir"},
          v \in (IF variant = "ENVConfig"
                 THEN [bucket_name : {"b"}, max_workers : {"", "8", "many"}, scratch_dir : {"", "/tmp/"}]
                 ELSE [bucket_name : {"b"}, max_workers : {2, 8}, scratch_dir : {"/tmp/"}]) :
          /\ LET given == [k \in K |-> v[k]]
                 required == {"bucket_name", "max_workers"}
                 constructed == IF variant = "DictConfig" THEN given @@ class_config ELSE class_config
                 defaults == DEFAULTS
                 updated == defaults @@ constructed
                 value(k) == k \in K /\ given[k] # ""
                 int(x) == CASE x = "8" -> 8
                 set(d, k) == IF ~value(k) THEN d
                              ELSE (k :> (IF k = "max_workers" THEN int(given[k]) ELSE given[k])) @@ d
                 environment ==
                     IF ~value("bucket_name") /\ "bucket_name" \notin DOMAIN defaults
                     THEN [raised |-> "ConfigError", d |-> updated]
                     ELSE IF value("max_workers") /\ given["max_workers"] = "many"
                     THEN [raised |-> "ValueError", d |-> set(updated, "bucket_name")]
                     ELSE [raised |-> "", d |-> set(set(set(updated, "bucket_name"), "max_workers"), "scratch_dir")]
                 populated == CASE variant = "ENVConfig" -> environment
                                [] variant = "JSONConfig" -> [raised |-> "", d |-> given @@ updated]
                                [] variant = "DictConfig" -> [raised |-> "", d |-> updated]
                 raised == IF populated.raised # "" THEN populated.raised
                           ELSE IF required \ DOMAIN populated.d # {} THEN "ConfigError"
                           ELSE ""
             IN  /\ class_config' = populated.d
                 /\ config' = Append(config, [variant |-> variant, given |-> given, raised |-> raised,
                                              attributes |-> IF raised = "" THEN populated.d ELSE <<>>])
    /\ UNCHANGED <<syncVars, snapVars, clientVars, queryVars, invocation, served, bucket, bucket0, ops, reads,
                   clock, faults, repoIdx, pc, stat, returned, repository, traversed, download>>

\* ENVConfig(), JSONConfig(path) and DictConfig(config_dict), with
\* Config.load. _config is the dictionary DEFAULTS itself, so what one
\* construction writes the next one finds, and load()'s update(DEFAULTS)
\* updates the dictionary with itself. given is what the environment,
\* the file or the dictionary holds; in the environment every value is
\* a string and an empty one counts as unset
LoadConfig ==
    /\ Len(config) < MaxConfigs
    /\ \E variant \in {"ENVConfig", "JSONConfig", "DictConfig"} :
       \E K \in SUBSET {"bucket_name", "max_workers", "scratch_dir"},
          v \in (IF variant = "ENVConfig"
                 THEN [bucket_name : {"b"}, max_workers : {"", "8", "many"}, scratch_dir : {"", "/tmp/"}]
                 ELSE [bucket_name : {"b"}, max_workers : {2, 8}, scratch_dir : {"/tmp/"}]) :
          /\ LET given == [k \in K |-> v[k]]
                 required == {"bucket_name", "max_workers"}
                 constructed == IF variant = "DictConfig" THEN given @@ class_config ELSE class_config
                 defaults == constructed
                 updated == defaults @@ constructed
                 value(k) == k \in K /\ given[k] # ""
                 int(x) == CASE x = "8" -> 8
                 set(d, k) == IF ~value(k) THEN d
                              ELSE (k :> (IF k = "max_workers" THEN int(given[k]) ELSE given[k])) @@ d
                 environment ==
                     IF ~value("bucket_name") /\ "bucket_name" \notin DOMAIN defaults
                     THEN [raised |-> "ConfigError", d |-> updated]
                     ELSE IF value("max_workers") /\ given["max_workers"] = "many"
                     THEN [raised |-> "ValueError", d |-> set(updated, "bucket_name")]
                     ELSE [raised |-> "", d |-> set(set(set(updated, "bucket_name"), "max_workers"), "scratch_dir")]
                 populated == CASE variant = "ENVConfig" -> environment
                                [] variant = "JSONConfig" -> [raised |-> "", d |-> given @@ updated]
                                [] variant = "DictConfig" -> [raised |-> "", d |-> updated]
                 raised == IF populated.raised # "" THEN populated.raised
                           ELSE IF required \ DOMAIN populated.d # {} THEN "ConfigError"
                           ELSE ""
             IN  /\ class_config' = populated.d
                 /\ config' = Append(config, [variant |-> variant, given |-> given, raised |-> raised,
                                              attributes |-> IF raised = "" THEN populated.d ELSE <<>>])
    /\ UNCHANGED <<syncVars, snapVars, clientVars, queryVars, invocation, served, bucket, bucket0, ops, reads,
                   clock, faults, repoIdx, pc, stat, returned, repository, traversed, download>>

SpecConfig == InitUnits /\ [][LoadConfig]_vars

\* ------------------------------------------------------------------------
\* Properties of sync
\* ------------------------------------------------------------------------

\* C1: the controller reaches the cutover call (overwrite_repomd) only
\* after every package and every repodata section handed to the pool in
\* this repository's sync has been dispatched and its task has returned
\* normally, so that its destination exists; no transfer task is running
\* then, and a PUT of the live repomd.xml is only ever issued by a sync
\* that got that far.
C1_CutoverAfterTransfers ==
    /\ pc = "overwrite_repomd" =>
          /\ LET repodata == parse_metadata(UpstreamUrl(repoIdx)).repodata
             IN  dispatched = {new_packages[k].destination : k \in DOMAIN new_packages}
                              \cup {repodata[k].destination : k \in DOMAIN repodata}
          /\ completed = dispatched
          /\ Running = {}
          /\ \A d \in dispatched : object_exists(bucket, d)
    /\ \A o \in ops : (o.op = "PUT" /\ o.key = (LiveRepomdKey(o.repo))) => stat[o.repo].outcome = "done"

C1_Witness ==
    /\ pc = "overwrite_repomd"
    /\ Cardinality(completed) >= 3
    /\ \E o \in ops : o.repo = repoIdx /\ o.op = "PUT"


\* C2: in a non-bootstrap sync the archive COPY of the live repomd.xml has
\* completed when the manifest PUT begins, and the manifest PUT has
\* completed when the controller reaches the cutover call; the manifest's
\* previous_repomd names (up to the leading slash that keys are trimmed of)
\* the archive key, which lies in the directory of manifest.json and holds
\* the body of the still live repomd.xml.
C2_ArchiveManifestCutover ==
    /\ pc = "put_manifest" =>
          /\ (trim_key(join(manifest_location, <<"repomd.xml">>))) \in DOMAIN bucket
          /\ CopyRequest(LiveRepomdKey(repoIdx), (trim_key(join(manifest_location, <<"repomd.xml">>)))) \in ops
          /\ (trim_key(join(manifest_location, <<"manifest.json">>))) \notin DOMAIN bucket
    /\ (pc = "overwrite_repomd" /\ ~bootstrap) =>
          LET m == (trim_key(join(manifest_location, <<"manifest.json">>)))
          IN  /\ m \in DOMAIN bucket
              /\ \E o \in ops : (o.op = "PUT" /\ o.key = m) /\ o.repo = repoIdx
              /\ LET a == trim_key(bucket[m].manifest.previous_repomd)
                 IN  /\ a = (trim_key(join(manifest_location, <<"repomd.xml">>)))
                     /\ a \in DOMAIN bucket
                     /\ dirname(a) = dirname(m)
                     /\ bucket[a].body = bucket[LiveRepomdKey(repoIdx)].body
    /\ \A o \in ops :
          (o.op = "PUT" /\ basename(o.key) = <<"manifest.json">>) =>
              \E c \in ops : c.op = "COPY" /\ c.repo = o.repo
                             /\ c.key = dirname(o.key) \o <<"/", "repomd.xml">>

C2_Witness ==
    /\ pc = "overwrite_repomd" /\ ~bootstrap
    /\ (trim_key(join(manifest_location, <<"manifest.json">>))) \in DOMAIN bucket
    /\ bucket[(trim_key(join(manifest_location, <<"manifest.json">>)))].manifest.synced_packages # {}

\* C3: a sync of a repository that got past parsing, the transfers and
\* (when not bootstrapping) the archive and the manifest performs the
\* cutover PUT of repomd.xml with max-age=0 and ends done.
C3_CutoverPerformed ==
    \A r \in RepoIds :
        (stat[r].outcome \in {"done", "failed"} /\ stat[r].failed_at \in {"none", "overwrite_repomd"}) =>
            /\ stat[r].outcome = "done"
            /\ \E o \in ops : (o.op = "PUT" /\ o.key = (LiveRepomdKey(r))) /\ o.repo = r /\ o.cache = 0

\* C4: every section the live repomd.xml of a repository lists resolves
\* to a key of the bucket.
C4_LiveIndexResolves ==
    \A r \in RepoIds :
        LiveRepomdKey(r) \in DOMAIN bucket =>
            LET sections == parse_repomd(build_s3_url(UpstreamUrl(r)), bucket[LiveRepomdKey(r)].body)
            IN  \A k \in DOMAIN sections : object_exists(bucket, sections[k].destination)

C4_Witness ==
    \E r \in RepoIds :
        /\ LiveRepomdKey(r) \in DOMAIN bucket
        /\ stat[r].failed_at = "overwrite_repomd"
        /\ \E o \in ops : o.repo = r /\ o.op = "PUT" /\ endswith(o.key, <<"primary", ".xml.gz">>)
                          /\ o.key \notin DOMAIN bucket0

TaskKeys(o) == {trim_key(o.destination), trim_key(replace_plus(o.destination))}

\* C5: a transfer task issues a PUT of its object's destination (or of the
\* '+'-workaround duplicate) only after validate_checksum passed on its
\* staged file: the declared type is sha256 and the digest of what it read
\* equals the declared checksum; a task past validation has both.
C5_ValidatedBeforePut ==
    \A i \in DOMAIN pool :
        LET o == pool[i].obj
        IN  (\/ pool[i].st \in {"put", "put_workaround", "unlink"}
             \/ \E q \in ops : q.op = "PUT" /\ q.key \in TaskKeys(o))
            => (o.checksum_type = "sha256" /\ sha256(pool[i].seen) = o.checksum)

C5_Witness ==
    \E i, j \in DOMAIN pool :
        /\ pool[i].st = "unlink"
        /\ \E q \in ops : q.op = "PUT" /\ q.key \in TaskKeys(pool[i].obj)
        /\ pool[j].st = "failed" /\ pool[j].seen = ""
        /\ \A q \in ops : ~(q.repo = repoIdx /\ q.key \in TaskKeys(pool[j].obj))


\* C14: no two tasks of a run of the pool use the same staging path at
\* the same time, whatever objects were dispatched, and the file a task
\* uploads is the file it validated: no other task has rewritten or
\* unlinked it in between.
C14_StagingPathsDisjoint ==
    /\ \A i, j \in DOMAIN pool :
          (i # j /\ pool[i].st \in {"validate", "put", "put_workaround", "unlink"} /\ pool[j].st \in {"validate", "put", "put_workaround", "unlink"}) =>
              StagedName(pool[i].obj) # StagedName(pool[j].obj)
    /\ \A i \in DOMAIN pool :
          pool[i].st \in {"put", "put_workaround"} =>
              /\ StagedName(pool[i].obj) \in DOMAIN staged
              /\ staged[StagedName(pool[i].obj)] = pool[i].seen

TaskPuts(i) == {q \in ops : q.op = "PUT" /\ q.key \in TaskKeys(pool[i].obj)}
TaskChecks(i) == {r \in reads : r.op = "HEAD" /\ r.task = i
                                 /\ r.key \in TaskKeys(pool[i].obj)}
BothVariantsExisted(o) ==
    /\ trim_key(o.destination) \in DOMAIN bucket0
    /\ trim_key(replace_plus(o.destination)) \in DOMAIN bucket0

\* C16: with skip_existing, a task whose destination has no '+' and
\* already exists returns at once: it is marked skipped, has downloaded
\* and validated nothing and no PUT of its key is issued.
C16_ExistingPlainKeySkipped ==
    \A i \in DOMAIN pool :
        (/\ skip_existing
         /\ ~HasPlus(pool[i].obj.destination)
         /\ trim_key(pool[i].obj.destination) \in DOMAIN bucket0
         /\ (pool[i].st \notin {"queued", "cancelled"})) =>
            /\ pool[i].skipped /\ pool[i].st = "done" /\ pool[i].seen = ""
            /\ TaskPuts(i) = {}

\* C17: with skip_existing, a task whose destination has a '+' is skipped
\* iff both the exact key and the key with spaces for '+' exist; a
\* skipped task has transferred nothing, a task that is not skipped
\* downloads and validates, and when it returns both keys have been PUT.
C17_PlusSkippedIffBothExist ==
    \A i \in DOMAIN pool :
        (skip_existing /\ HasPlus(pool[i].obj.destination)) =>
            /\ pool[i].skipped =>
                  /\ BothVariantsExisted(pool[i].obj)
                  /\ pool[i].st = "done" /\ pool[i].seen = "" /\ TaskPuts(i) = {}
            /\ pool[i].st \in {"download", "validate", "put", "put_workaround", "unlink"} => ~BothVariantsExisted(pool[i].obj)
            /\ (pool[i].st = "done" /\ BothVariantsExisted(pool[i].obj)) => pool[i].skipped
            /\ (pool[i].st = "done" /\ ~pool[i].skipped) =>
                  /\ pool[i].seen # ""
                  /\ {q.key : q \in TaskPuts(i)} = TaskKeys(pool[i].obj)

C17_Witness ==
    \E i, j \in DOMAIN pool :
        /\ skip_existing
        /\ pool[i].skipped /\ HasPlus(pool[i].obj.destination)
        /\ pool[j].st = "done" /\ ~pool[j].skipped /\ HasPlus(pool[j].obj.destination)
        /\ trim_key(pool[j].obj.destination) \notin DOMAIN bucket0

\* C18: a task that has uploaded an object whose destination has a '+'
\* has issued exactly two PUTs, of the exact key and of the key with
\* spaces, with the same body, and under skip_existing two existence
\* checks, one per variant; a task that has uploaded an object without
\* '+' has issued exactly one PUT.
C18_TwoPutsTwoChecks ==
    \A i \in DOMAIN pool :
        (pool[i].st = "done" /\ ~pool[i].skipped) =>
            IF HasPlus(pool[i].obj.destination)
            THEN /\ {q.key : q \in TaskPuts(i)} = TaskKeys(pool[i].obj)
                 /\ Cardinality(TaskPuts(i)) = 2
                 /\ \A q1, q2 \in TaskPuts(i) : q1.body = q2.body
                 /\ skip_existing => {r.key : r \in TaskChecks(i)} = TaskKeys(pool[i].obj)
            ELSE Cardinality(TaskPuts(i)) = 1

\* The <package> elements of version s of a repository's primary.xml
Elements(s) == {PkgElement(ScenarioPkgs(s)[k]) : k \in 1..Len(ScenarioPkgs(s))}

\* C19: while a repository's sync is in or past the transfer pool, the
\* packages handed to the pool are, in a non-bootstrap sync, exactly the
\* upstream packages for which the mirror lists no package of the same
\* (name, version, epoch, release, checksum), and in a bootstrap sync
\* every upstream package; once the package pool has returned every
\* upstream repodata section has been handed over as well and nothing
\* else; a non-bootstrap sync runs with skip_existing false: no task
\* issues an existence check and none is skipped.
C19_DispatchIsDifference ==
    pc \in {"pool_packages", "pool_repodata"} \cup {"archive_repomd", "put_manifest", "overwrite_repomd"} =>
        LET mirror == CHOOSE s \in Versions :
                          bucket0[LiveRepomdKey(repoIdx)].body \in {RepomdBody(s), SnapshotRepomdBody(s)}
            SameIdentity(e, f) ==
                /\ e.name = f.name /\ e.ver = f.ver /\ e.epoch = f.epoch /\ e.rel = f.rel
                /\ e.checksum = f.checksum
            new == IF bootstrap THEN Elements(upstream)
                   ELSE {e \in Elements(upstream) : \A f \in Elements(mirror) : ~SameIdentity(e, f)}
            packages == {RepoPath(repoIdx) \o e.href : e \in new}
            SectionDestinations ==
                {RepoPath(repoIdx) \o RepomdData(upstream)[k].href : k \in 1..Len(RepomdData(upstream))}
        IN  /\ pc = "pool_packages" =>
                  /\ dispatched = packages
                  /\ {pool[i].obj.destination : i \in DOMAIN pool} = packages
            /\ pc # "pool_packages" => dispatched = packages \cup SectionDestinations
            /\ pc = "pool_repodata" =>
                  {pool[i].obj.destination : i \in DOMAIN pool} = SectionDestinations
            /\ ~bootstrap =>
                  /\ ~skip_existing
                  /\ \A i \in DOMAIN pool : ~pool[i].skipped /\ TaskChecks(i) = {}

C19_Witness ==
    /\ ~bootstrap
    /\ pc = "pool_repodata"
    /\ \E e \in Elements(upstream) : RepoPath(repoIdx) \o e.href \in dispatched
    /\ \E e \in Elements(upstream) : RepoPath(repoIdx) \o e.href \notin dispatched
    /\ \E i \in DOMAIN pool : pool[i].st = "done"


\* C6: a task that raised makes its repository's sync fail in the pool:
\* the controller goes on to the archive, the manifest and the cutover
\* only when every dispatched task returned normally; a sync that failed
\* in the pool has issued no COPY, no manifest PUT and no PUT of the live
\* repomd.xml, and what other tasks uploaded is still in the bucket.
C6_TaskFailureAbortsRepository ==
    /\ pc \in {"archive_repomd", "put_manifest", "overwrite_repomd"} => completed = dispatched
    /\ (\E i \in DOMAIN pool : pool[i].st = "failed") =>
          \/ pc \in {"pool_packages", "pool_repodata"}
          \/ /\ pc \in {"loop", "returned"}
             /\ stat[(repoIdx - 1)].outcome = "failed" /\ stat[(repoIdx - 1)].failed_at \in {"pool_packages", "pool_repodata"}
    /\ \A r \in RepoIds :
          stat[r].failed_at \in {"pool_packages", "pool_repodata"} =>
              /\ stat[r].outcome = "failed"
              /\ \A o \in ops : o.repo = r =>
                    /\ o.op \in {"PUT", "PUT_REJECTED"}
                    /\ basename(o.key) # <<"manifest.json">>
                    /\ o.key # LiveRepomdKey(r)
                    /\ o.op = "PUT" => o.key \in DOMAIN bucket

C6_Witness ==
    \E r \in RepoIds :
        /\ stat[r].failed_at = "pool_packages"
        /\ \E o \in ops : o.repo = r /\ o.op = "PUT" /\ o.key \in DOMAIN bucket


\* C7: every repository before the loop's position has been attempted,
\* whatever happened to those before it; sync_success is the AND of their
\* outcomes, and sync returns true iff no repository's sync raised.
C7_FailureIsolation ==
    /\ \A r \in RepoIds : r < repoIdx => stat[r].outcome # "none"
    /\ sync_success = (\A r \in RepoIds : r < repoIdx => ~(stat[r].outcome = "failed"))
    /\ returned # "running" =>
          /\ \A r \in RepoIds : stat[r].outcome # "none"
          /\ (returned = "True") = (\A r \in RepoIds : ~(stat[r].outcome = "failed"))

C7_Witness ==
    /\ returned = "False"
    /\ (stat[1].outcome = "failed")
    /\ stat[Len(Repositories)].outcome = "skipped"

RepoKeys(b, r) == {k \in DOMAIN b : startswith(k, trim_key(RepoPath(r)))}

\* C8: a repository is skipped exactly when, not bootstrapping, its
\* upstream's Last-Modified is present and not strictly newer than the
\* LastModified of the mirror's repomd.xml; a skipped repository has had
\* no PUT, COPY or DELETE issued, its keys are as they were, and it does
\* not make sync return false.
C8_SkipWhenNotNewer ==
    /\ \A r \in RepoIds :
          /\ stat[r].outcome = "skipped" =>
                /\ ~bootstrap
                /\ stat[r].header # 0 /\ stat[r].header <= stat[r].since
                /\ \A o \in ops : o.repo # r
                /\ RepoKeys(bucket, r) = RepoKeys(bucket0, r)
                /\ \A k \in RepoKeys(bucket, r) : bucket[k] = bucket0[k]
          /\ (stat[r].header \notin {NotSeen, 0} /\ stat[r].header <= stat[r].since) =>
                stat[r].outcome = "skipped"
    /\ (returned # "running" /\ \A r \in RepoIds : stat[r].outcome = "skipped") =>
          returned = "True"

C8_Witness ==
    /\ returned = "True"
    /\ \E r \in RepoIds : stat[r].outcome = "skipped" /\ stat[r].header = stat[r].since
    /\ \E r \in RepoIds : stat[r].outcome = "skipped" /\ stat[r].header < stat[r].since

\* C21: a bootstrap sync runs the pool with skip_existing set (a started
\* task of a destination with '+' has asked whether the object exists),
\* issues no COPY and no PUT of a manifest.json for any repository, and
\* makes no freshness check: the controller issues no HEAD request, never
\* compares Last-Modified times and skips no repository.
C21_BootstrapNoManifestNoFreshness ==
    bootstrap =>
        /\ skip_existing
        /\ \A i \in DOMAIN pool :
              (HasPlus(pool[i].obj.destination) /\ pool[i].st \notin {"queued", "cancelled"}) =>
                  TaskChecks(i) # {}
        /\ \A o \in ops : o.op # "COPY" /\ basename(o.key) # <<"manifest.json">>
        /\ \A r \in reads : r.task # 0
        /\ \A r \in RepoIds :
              stat[r].since = NotSeen /\ stat[r].header = NotSeen /\ stat[r].outcome # "skipped"
        /\ pc \notin {"repomd_update_time", "has_updates", "mirror_parse_metadata",
                      "archive_repomd", "put_manifest"}

C21_Witness ==
    /\ bootstrap
    /\ pc = "overwrite_repomd"
    /\ \E o \in ops : o.op = "PUT" /\ o.repo = repoIdx
    /\ \E r \in reads : r.op = "HEAD" /\ r.repo = repoIdx

\* C23: has_updates(since) answers true when the HEAD response has no
\* Last-Modified header (the sync goes on whatever `since` is), and
\* otherwise answers true iff the header is strictly later than `since`:
\* of a repository whose upstream was asked, the sync went on iff the
\* header was absent or later than the mirror's time, and stopped with
\* nothing done when the two were equal.
C23_HasUpdatesStrictlyNewer ==
    \A r \in RepoIds :
        stat[r].header # NotSeen =>
            /\ stat[r].header = 0 => stat[r].outcome # "skipped"
            /\ stat[r].header # 0 =>
                  (stat[r].outcome = "skipped") = ~(stat[r].header > stat[r].since)
            /\ (stat[r].header # 0 /\ stat[r].header = stat[r].since) =>
                  stat[r].outcome = "skipped"
            /\ (r = repoIdx /\ pc = "mirror_parse_metadata") =>
                  (stat[r].header = 0 \/ stat[r].header > last_check_time)

C23_Witness ==
    /\ stat[1].header = 0 /\ stat[1].outcome = "failed" /\ stat[1].failed_at = "overwrite_repomd"
    /\ stat[2].header = stat[2].since /\ stat[2].outcome = "skipped"

\* C22: while sync() runs for the second time on upstreams that did not
\* change, the bucket is as the first invocation left it: no key is
\* added, overwritten or removed.
C22_SecondSyncChangesNothing ==
    invocation = 2 => bucket = bucket0

\* The keys named `name` that the run has written under repository r's
\* manifests directory
Written(r, name) ==
    {k \in DOMAIN bucket \ DOMAIN bucket0 :
        startswith(k, trim_key(join(RepoPath(r), MANIFEST_DIRECTORY))) /\ basename(k) = <<name>>}

\* C20: a non-bootstrap sync of a repository leaves an archived
\* repomd.xml or a manifest.json only if it succeeds and its new-package
\* set is non-empty, and then exactly one of each: while the sync has not
\* succeeded nothing lies under the manifests directory that was not
\* there before, no manifest with an empty package list is written, and
\* no sync writes more than one manifest or one archive.
C20_ManifestOnlyForChanges ==
    ~bootstrap =>
        \A r \in RepoIds :
            /\ stat[r].outcome \in {"failed", "skipped"} =>
                  Written(r, "manifest.json") = {} /\ Written(r, "repomd.xml") = {}
            /\ \A k \in Written(r, "manifest.json") : bucket[k].manifest.synced_packages # {}
            /\ Cardinality(Written(r, "manifest.json")) <= 1 /\ Cardinality(Written(r, "repomd.xml")) <= 1

\* ------------------------------------------------------------------------
\* Properties of the client
\* ------------------------------------------------------------------------

\* C15: a thread is inside the client's constructor only while it holds
\* the lock, so no two threads are inside it at the same time, however
\* the threads that find no client yet interleave.
C15_ConstructionUnderLock ==
    /\ \A t \in Threads : (threads[t].pc = "create_client") => lock = t
    /\ \A t, u \in Threads : ((threads[t].pc = "create_client") /\ (threads[u].pc = "create_client")) => t = u
    /\ \A t \in Threads : threads[t].pc = "release" => lock = t

C15_Witness ==
    \E t, u \in Threads :
        /\ t # u
        /\ (threads[t].pc = "create_client") /\ lock = t
        /\ threads[u].pc = "acquire"

\* ------------------------------------------------------------------------
\* Properties of snapshot
\* ------------------------------------------------------------------------
SnapshotKeys(b, i) ==
    ListKeys(b, get_snapshot_directory(Tail(RepoPath(i)), snapshot_id) \o <<"/">>)

\* C9: when snapshot(id) fails after the identifier was validated, the
\* error is raised to the caller and no key is left under
\* <repo>/snapshots/<id>/ for any configured repository.
C9_FailedSnapshotLeavesNothing ==
    /\ (pc = "returned" /\ \E i \in RepoIds : stat[i].outcome = "failed") =>
          returned = "Exception"
    /\ returned = "Exception" => \A i \in RepoIds : SnapshotKeys(bucket, i) = {}

SnapshotUrl(i) ==
    [host |-> "s3",
     path |-> <<"/">> \o get_snapshot_directory(Tail(RepoPath(i)), snapshot_id) \o <<"/">>]

SnapshotRepomdKey(i) == get_snapshot_path(Tail(RepoPath(i)), snapshot_id, <<"repomd.xml">>)

\* C12: when a key exists under <repo>/snapshots/<id>/ for some configured
\* repository, snapshot(id) does nothing but validate: it ends with
\* InvalidSnapshotID, no repository is snapshotted, no PUT, COPY or DELETE
\* is issued and the bucket is as it was.
C12_ExistingSnapshotRefused ==
    (\E i \in RepoIds : SnapshotKeys(bucket0, i) # {}) =>
        /\ pc \in {"validate_snapshot_id", "returned"}
        /\ pc = "returned" => returned = "InvalidSnapshotID"
        /\ \A i \in RepoIds : stat[i] = NotRun
        /\ ops = {}
        /\ bucket = bucket0

C12_Witness ==
    /\ returned = "InvalidSnapshotID"
    /\ SnapshotKeys(bucket0, 1) = {} /\ SnapshotKeys(bucket0, Len(Repositories)) # {}
    /\ Cardinality(reads) = Len(Repositories)


\* C13: validation accepts an identifier iff it consists of characters of
\* [A-Za-z0-9_-] only (so it has no newline); for any other identifier
\* snapshot(id) ends with InvalidSnapshotID without any request to the
\* store, and for an accepted one the existence of its directories is
\* tested and only an existing directory makes it end so.
C13_SnapshotIdValidation ==
    pc # "validate_snapshot_id" =>
        /\ ~(snapshot_id # <<>> /\ \A k \in DOMAIN snapshot_id : snapshot_id[k] \in {"s1", "0"}) =>
              /\ returned = "InvalidSnapshotID"
              /\ reads = {} /\ ops = {} /\ bucket = bucket0
        /\ (snapshot_id # <<>> /\ \A k \in DOMAIN snapshot_id : snapshot_id[k] \in {"s1", "0"}) =>
              /\ reads # {}
              /\ returned = "InvalidSnapshotID" =>
                    \E i \in RepoIds : ListKeys(bucket0, get_snapshot_directory(Tail(RepoPath(i)), snapshot_id)) # {}

C13_Witness ==
    /\ returned = "InvalidSnapshotID"
    /\ snapshot_id = <<"s1", "\n">>
    /\ reads = {}

\* C11: once _snapshot_repository has returned for a repository, every
\* section the snapshot's repomd.xml lists, of whatever type or file
\* extension, resolves to a key under <repo>/snapshots/<id>/.
C11_SnapshotSelfConsistent ==
    \A i \in RepoIds :
        (stat[i].outcome = "done" /\ SnapshotRepomdKey(i) \in DOMAIN bucket) =>
            LET sections == parse_repomd(SnapshotUrl(i), bucket[SnapshotRepomdKey(i)].body)
            IN  \A k \in DOMAIN sections :
                    /\ trim_key(sections[k].destination) \in SnapshotKeys(bucket, i)
                    /\ sha256(bucket[trim_key(sections[k].destination)].body) = sections[k].checksum

\* C10: the repomd.xml of a snapshot is the last key written under the
\* snapshot's directory: whenever it exists, every section it lists (the
\* copied sections and the rewritten primary) exists.
C10_SnapshotRepomdWrittenLast ==
    \A i \in RepoIds :
        SnapshotRepomdKey(i) \in DOMAIN bucket =>
            LET sections == parse_repomd(SnapshotUrl(i), bucket[SnapshotRepomdKey(i)].body)
            IN  \A k \in DOMAIN sections : object_exists(bucket, sections[k].destination)

\* ------------------------------------------------------------------------
\* Properties of sync_snapshot, list_snapshots and diff_snapshots
\* ------------------------------------------------------------------------
\* C24: for each repository sync_snapshot(id) has finished, the PUT at
\* <repo>/snapshots/<id>/repodata/repomd.xml carries the repomd.xml that
\* was downloaded from the snapshot, and every section that repomd.xml
\* lists has been PUT, with the content its checksum names, at the key it
\* has relative to the snapshot directory.
C24_SnapshotRepomdPutLast ==
    \A i \in RepoIds :
        (pc \in {"snapshot_loop", "download_file", "put_repomd", "returned"} /\ i < repoIdx
         /\ stat[i].outcome = "done")
        => \E s \in Versions :
              /\ \A q \in ops :
                    (q.op = "PUT" /\ q.key = SnapshotRepomdKey(i)) => q.body = SnapshotRepomdBody(s)
              /\ SnapshotRepomdKey(i) \in DOMAIN bucket
              /\ bucket[SnapshotRepomdKey(i)].body = SnapshotRepomdBody(s)
              /\ \A d \in Range(safe_parse_xml(SnapshotRepomdBody(s))) :
                    \E q \in ops :
                        /\ q.op = "PUT"
                        /\ q.key = get_snapshot_directory(Tail(RepoPath(i)), snapshot_id) \o <<"/">> \o d.href
                        /\ sha256(q.body) = d.checksum

\* C25: list_snapshots() reports the pair (repo_path, id) iff the bucket
\* has a key ending in repomd.xml under that repository's
\* snapshots/<id>/repodata, and maps the pair to that key's LastModified; a
\* snapshot directory with sections but no repomd.xml is not reported.
C25_ListedIffRepomdExists ==
    (old_snapshot = <<>> /\ pc = "returned") =>
        LET reported == IF returned = "list_snapshots" THEN snapshots ELSE <<>>
        IN  \A i \in RepoIds : \A id \in {<<"s1">>, <<"s1", "0">>} :
                LET repodata == get_snapshot_directory(Tail(RepoPath(i)), id) \o <<"/", "repodata", "/">>
                    keys == {k \in ListKeys(bucket, repodata) : endswith(k, <<"repomd.xml">>)}
                IN  /\ <<RepoPath(i), id>> \in DOMAIN reported <=> keys # {}
                    /\ <<RepoPath(i), id>> \in DOMAIN reported =>
                          \E k \in keys : reported[<<RepoPath(i), id>>] = bucket[k].last_modified

\* C26: diff_snapshots(A, A) reports no changes, and a repository whose
\* two snapshots record the same primary checksum in their repomd.xml is
\* passed over: it gets no entry in the result and neither primary file is
\* requested.
C26_EqualChecksumsNoChanges ==
    pc \in {"diff_snapshots", "returned"} =>
        /\ old_snapshot = new_snapshot => diff = <<>>
        /\ \A i \in RepoIds :
              LET recorded(id) ==
                      LET key == get_snapshot_path(Tail(RepoPath(i)), id, <<"repomd.xml">>)
                      IN  IF key \in DOMAIN bucket
                          THEN {d.checksum : d \in {x \in Range(safe_parse_xml(bucket[key].body)) : x.type = "primary"}}
                          ELSE {}
              IN  (old_snapshot # <<>> /\ recorded(old_snapshot) # {}
                   /\ recorded(old_snapshot) = recorded(new_snapshot)) =>
                      /\ RepoPath(i) \notin DOMAIN diff
                      /\ \A r \in reads : (r.op = "GET" /\ r.repo = i) => endswith(r.key, <<"repomd.xml">>)

C26_Witness ==
    /\ returned = "diff_snapshots"
    /\ old_snapshot # new_snapshot
    /\ RepoPath(1) \notin DOMAIN diff
    /\ RepoPath(2) \in DOMAIN diff /\ DOMAIN diff[RepoPath(2)].updated # {}
    /\ \E r \in reads : r.op = "GET" /\ r.repo = 1

\* ------------------------------------------------------------------------
\* Properties of the requests
\* ------------------------------------------------------------------------
\* C27: every COPY, every PUT of a repository's live repodata/repomd.xml
\* and every PUT of a manifest.json carries Cache-Control max-age=0; every
\* other PUT carries max-age=31536000.
C27_CacheControl ==
    \A q \in ops :
        /\ q.op = "COPY" => q.cache = 0
        /\ q.op = "PUT" =>
              q.cache = IF (\E i \in RepoIds : q.key = LiveRepomdKey(i)) \/ basename(q.key) = <<"manifest.json">>
                        THEN 0 ELSE 31536000

\* C28: every PUT request carries ACL public-read and a Content-MD5 that
\* is the base64 MD5 of the bytes sent as its body, the file from its
\* start.
C28_PutCarriesDigestOfBody ==
    \A q \in ops :
        q.op \in {"PUT", "PUT_REJECTED"} => (q.acl = "public-read" /\ q.md5 = build_md5_header(q.body))

C30_PackageIdentity ==
    LET repo(i, id) == [host |-> "s3", path |-> get_snapshot_directory(RepoPath(i), id) \o <<"/">>]
        held == {r \in {repo(x[1], x[2]) : x \in RepoIds \X {<<"s1">>, <<"s1", "0">>}} : CanParseMetadata(r)}
        tuple(p) == <<p.name, p.version, p.epoch, p.release, p.checksum>>
        missing(L1, L2) == {p \in Range(L1) : \A q \in Range(L2) : tuple(p) # tuple(q)}
    IN  /\ \A r1, r2 \in held :
              LET L1 == parse_metadata(r1).package_list
                  L2 == parse_metadata(r2).package_list
              IN  /\ \A p \in Range(L1), q \in Range(L2) : (PackageKey(p) = PackageKey(q)) <=> (tuple(p) = tuple(q))
                  /\ \E p \in Range(L1), q \in Range(L2) : r1 # r2 => (p # q /\ PackageKey(p) = PackageKey(q))
                  /\ PackageDifference(L1, L1) = {}
                  /\ PackageDifference(L1, L2) = missing(L1, L2)
        /\ \A i \in RepoIds :
              RepoPath(i) \in DOMAIN diff =>
                  LET old == parse_metadata(repo(i, old_snapshot)).package_list
                      new == parse_metadata(repo(i, new_snapshot)).package_list
                  IN  DOMAIN diff[RepoPath(i)].updated
                      = {p.name : p \in missing(old, new)} \cap {q.name : q \in Range(new)}

C30_Witness ==
    /\ returned = "diff_snapshots"
    /\ RepoPath(1) \in DOMAIN diff /\ DOMAIN diff[RepoPath(1)].updated = {"a"}
    /\ RepoPath(2) \in DOMAIN diff /\ DOMAIN diff[RepoPath(2)].updated = {}

\* ------------------------------------------------------------------------
\* Properties settled last
\* ------------------------------------------------------------------------
\* C34: however the threads interleave, the client of one S3 object is
\* constructed at most once: once a construction has completed no thread
\* constructs or installs another client, and every access returns the
\* same client.
C34_ClientConstructedOnce ==
    /\ clients <= 1
    /\ \A t, u \in Threads :
          (threads[t].got # NoClient /\ threads[u].got # NoClient) => threads[t].got = threads[u].got

\* C35: snapshot(id) with a well-formed id ends with InvalidSnapshotID
\* only when some repository has a key under <repo>/snapshots/<id>/; an id
\* that is a strict prefix of an existing snapshot's id passes.
C35_CollisionOnlyOnSameId ==
    (returned = "InvalidSnapshotID" /\ MatchesSnapshotRegex(snapshot_id) /\ ~HasNewline(snapshot_id)) =>
        \E i \in RepoIds : SnapshotKeys(bucket0, i) # {}

\* C36: for a repository whose two snapshots differ in their primary
\* checksum, diff_snapshots(old, new) reports the packages of the new
\* list that no package of the old list equals, each under its name with
\* the old snapshot's [version, release] first and the new snapshot's
\* second.
C36_DiffIsNewMinusOld ==
    \A i \in RepoIds :
        RepoPath(i) \in DOMAIN diff =>
            LET repo(id) == [host |-> "s3", path |-> get_snapshot_directory(RepoPath(i), id) \o <<"/">>]
                old_list == Range(parse_metadata(repo(old_snapshot)).package_list)
                new_list == Range(parse_metadata(repo(new_snapshot)).package_list)
                changed == {p \in new_list : \A q \in old_list : PackageKey(p) # PackageKey(q)}
                updated == diff[RepoPath(i)].updated
            IN  /\ DOMAIN updated = {p.name : p \in {x \in changed : \E q \in old_list : q.name = x.name}}
                /\ \A n \in DOMAIN updated :
                      \E p \in changed, q \in old_list :
                          /\ p.name = n /\ q.name = n
                          /\ updated[n] = << <<q.version, q.release>>, <<p.version, p.release>> >>

\* C33: parse_repomd gives one section per <data> type of the document,
\* in document order; each has its url, location, destination,
\* checksum_type and checksum, with url = base_url + location,
\* destination = repository path + location and checksum the text of the
\* element's <checksum>; these sections are what the repodata pool is given.
C33_OneSectionPerDataElement ==
    pc = "pool_repodata" =>
        LET base_url == UpstreamUrl(repoIdx)
            body == HttpGet(UrlOf(base_url, REPOMD_XML)).body
            document == safe_parse_xml(body)
            sections == parse_repomd(base_url, body)
        IN  /\ DOMAIN sections = DOMAIN document
            /\ \A j, k \in DOMAIN sections : sections[j].type = sections[k].type => j = k
            /\ \A k \in DOMAIN sections :
                  /\ sections[k].type = document[k].type
                  /\ sections[k].location = document[k].href /\ sections[k].location # <<>>
                  /\ sections[k].url = [host |-> base_url.host, path |-> base_url.path \o document[k].href]
                  /\ sections[k].destination = RepoPath(repoIdx) \o document[k].href
                  /\ sections[k].checksum = document[k].checksum /\ sections[k].checksum # ""
                  /\ sections[k].checksum_type = document[k].checksum_type /\ sections[k].checksum_type # ""
            /\ DOMAIN pool = DOMAIN sections
            /\ \A k \in DOMAIN pool : pool[k].obj = RepoObject(sections[k])

C33_Witness ==
    /\ pc = "pool_repodata" /\ upstream = "plus"
    /\ Len(pool) = 2 /\ pool[1].st = "done" /\ pool[2].st = "put"
    /\ pool[2].obj.destination = RepoPath(repoIdx) \o RepomdData("plus")[2].href


\* C31: RPMRepository(base_url) raises ValueError exactly when the URL
\* does not start with "https://" or its path has two slashes in a row;
\* otherwise the object's base_url is the given URL, with a "/" appended
\* when the given URL does not end in one, and so always ends in "/"
C31_ConstructorAcceptsHttpsOnly ==
    repository # <<>> =>
        LET given == repository.given
            https == given[1] = "https://"
            query == {k \in 3..Len(given) : given[k] \in {"?", "#"}}
            slashes == \E k \in 3..(Len(given) - 1) :
                          /\ given[k] = "/" /\ given[k + 1] = "/"
                          /\ \A q \in query : k + 1 < q
        IN  /\ (repository.raised = "ValueError") <=> (~https \/ slashes)
            /\ repository.raised \in {"", "ValueError"}
            /\ repository.raised = "" =>
                  /\ repository.base_url[Len(repository.base_url)] = "/"
                  /\ repository.base_url = (IF given[Len(given)] = "/" THEN given ELSE given \o <<"/">>)

C31_Witness ==
    /\ repository # <<>> /\ repository.raised = ""
    /\ repository.given = <<"https://", "h", "/", "r1">>
    /\ repository.base_url = <<"https://", "h", "/", "r1", "/">>
    /\ repository.path = <<"/", "r1", "/">>


C37_RetryOnlyAfterS3Forbidden ==
    download # <<>> =>
        LET first == download.answers[1]
            last == download.answers[Len(download.answers)]
            url == download.url
        IN  /\ Len(download.requests) \in {1, 2} /\ Len(download.answers) = Len(download.requests)
            /\ download.requests[1] = url
            /\ Len(download.requests) = 2 <=> (first.status = 403 /\ first.Server = "AmazonS3")
            /\ Len(download.requests) = 2 =>
                  LET retry == download.requests[2]
                  IN  /\ retry.host = url.host /\ retry.query = url.query
                      /\ Len(retry.path) = Len(url.path)
                      /\ \A k \in DOMAIN url.path :
                            retry.path[k] = (IF url.path[k] = "+" THEN "%2B" ELSE url.path[k])
            /\ (last.status \notin {0, 200}) <=> download.raised = "HTTPError"
            /\ last.status = 200 <=> download.raised = ""
            /\ download.raised = "" <=> download.out_path # <<>>

C37_Witness ==
    /\ download # <<>> /\ Len(download.requests) = 2
    /\ download.url.path = <<"/", "c", "+", "+", "/", "g", "+", ".rpm">>
    /\ download.requests[2].path = <<"/", "c", "%2B", "%2B", "/", "g", "%2B", ".rpm">>
    /\ download.answers[2].status = 200 /\ download.raised = ""
    /\ download.out_path = <<"temp_dir", "/", "g", "%2B", ".rpm">>


\* C38: in a configuration loaded from the environment, from a file or
\* from a dictionary, max_workers and scratch_dir have the value that was
\* given for them, not the default, whenever one was given
C38_ExplicitValueWins ==
    \A n \in DOMAIN config :
        LET c == config[n]
        IN  c.raised = "" =>
                /\ ("scratch_dir" \in DOMAIN c.given /\ c.given["scratch_dir"] = "/tmp/") =>
                        c.attributes["scratch_dir"] = "/tmp/"
                /\ ("max_workers" \in DOMAIN c.given /\ c.variant = "ENVConfig" /\ c.given["max_workers"] = "8") =>
                        c.attributes["max_workers"] = 8
                /\ ("max_workers" \in DOMAIN c.given /\ c.variant # "ENVConfig") =>
                        c.attributes["max_workers"] = c.given["max_workers"]
                /\ DOMAIN DEFAULTS \subseteq DOMAIN c.attributes

C38_Witness ==
    /\ Len(config) = 2
    /\ \A n \in 1..2 :
          /\ config[n].raised = ""
          /\ DOMAIN config[n].given = {"bucket_name", "max_workers", "scratch_dir"}
          /\ config[n].attributes["scratch_dir"] = "/tmp/"
    /\ config[1].attributes["max_workers"] = 8 /\ config[2].attributes["max_workers"] = 2
    /\ config[1].variant = "ENVConfig" /\ config[2].variant = "DictConfig"

====
